---- MODULE Spec2Model ----
(***************************************************************************)
(* Model of the archival-scan pipeline backend:                            *)
(*   - the JSON document store (backend/src/infra/storage/local_storage.py)*)
(*   - the callback receiver, uploads and deletions (backend/src/api/v1)   *)
(*   - the dispatch worker (backend/src/tasks/ml_tasks.py) and the         *)
(*     postprocessing trigger (pipeline_callback.py).                      *)
(*   - the OCR service (ml/entrypoint.py) and the postprocessing service   *)
(*     (postprocessing/main.py).                                           *)
(* Several specifications share the variables; each one holds the          *)
(* variables of the parts it does not move constant.                       *)
(***************************************************************************)
EXTENDS Integers, Sequences, FiniteSets, TLC

\* ------------------------------------------------------------------------
\* Bounds
\* ------------------------------------------------------------------------
NProcs == 2
MaxCalls == 3
MaxClock == 1
NHandlers == 2
MaxOps == 3
NFids == 2
MaxDeliveries == 1
MaxRuns == 2
MaxKeyLen == 3
MaxStemLen == 5
max_io_concurrency == 1

\* ------------------------------------------------------------------------
\* Document store: values
\* ------------------------------------------------------------------------
\* absent values, of the type of the values they stand in for
None == -1
NoFile == [val |-> -1, full |-> FALSE, mtime |-> -1]
NoLock == -1
Free == 0
NoOp == "none"

Procs == 1..NProcs
\* each module of the backend builds its own store object over one directory
Stores == {"s1", "s2"}
Keys == {"k"}
InitVal == 0

\* the document a replace/create of process p writes
DocOf(p) == 10 * p

\* PatchFn of the counter scenario: the document with its counter plus one
patch(data) == data + 1

VARIABLES
    disk,      \* key -> NoFile or [val, full, mtime]: the file at the key's path
    tmp,       \* process -> NoFile or [val, full, mtime]: its temporary file
    locks,     \* <<store, key>> -> NoLock | Free | holder: _locks of each store
    clock,     \* the clock the filesystem stamps mtimes with
    proc,      \* process -> its call in progress and its position in it
    crashed,   \* the process was killed
    hs         \* history of the store calls (not program state):
               \*   calls: calls begun; pure: every call so far is a counter update
               \*   on store s1; ret: updates returned while pure; overlap: two
               \*   calls were in progress together; obs: the stamp each caller
               \*   holds; stale: callers whose stamp a later replace outdated

VARIABLES
    files,     \* file id -> the record files/{file_id} of the store, or NoRec
    mirror,    \* <<group, file id>> -> the status mirror statuses/{file_id}.json
    index,     \* group -> the record group_index/{group}
    groups,    \* groups that have a record groups/{group}
    gdirs,     \* groups whose directory tree exists
    hd,        \* handler slot -> the request it serves and its position
    queue,     \* start_ml_pipeline messages enqueued and not yet taken
    bg,        \* trigger_postprocessing tasks scheduled and not yet run
    wk,        \* the dramatiq worker executing a start_ml_pipeline message
    pp,        \* the latest run of trigger_postprocessing
    ocr,       \* run slot -> a thread of the OCR service and its position
    stage,     \* the names of the files in the process/ directory of group g1
    hp         \* history of the requests (not program state):
               \*   ops: requests begun; nfid: file ids handed out;
               \*   last: the request that finished last and its answer; re: it
               \*         repeated the request finished just before it; un: its
               \*         file was not resolvable at any moment from its arrival
               \*         to its answer; wrote: it wrote a File record or a mirror;
               \*         sched: it scheduled trigger_postprocessing; solo: no
               \*         other request was in progress at any moment of it;
               \*   pipe: only uploads and service callbacks so far;
               \*   own: every callback named the group of its file;
               \*   ok: every status-changing request so far was answered 200;
               \*   nodel: no delete_group so far;
               \*   named: the file ids that requests so far have carried

VARIABLES
    kp,        \* a call of the store seen from its key: the key, the path the
               \*   key resolved to, the paths the call has read or written
    ct         \* a request for the stage content of a file and its position

VARIABLES
    final,     \* the names of the files in the final/ directory of group g1
    ps         \* the postprocessing service: the request it serves, the files
               \*   it has still to process, the file at hand; runs: requests
               \*   begun; sent: the names it has posted a done callback for

VARIABLES
    nm         \* a source file name on its way through the OCR service and the
               \*   normalisation: the name, the index, the output name, the
               \*   stems the two names normalise to

VARIABLES
    io         \* the synchronisation of one store object: call: caller -> the
               \*   operation, the key and the position in it; locks: key ->
               \*   the holder of the lock of _locks, or Free; sem: the
               \*   permits of _io_sem taken

storeVars == <<disk, tmp, locks, clock, proc, crashed, hs>>
pipeVars == <<files, mirror, index, groups, gdirs, hd, queue, bg, hp>>
dispVars == <<wk, pp, ocr, stage, kp, ct, final, ps, nm, io>>
vars == <<disk, tmp, locks, clock, proc, crashed, hs,
          files, mirror, index, groups, gdirs, hd, queue, bg, hp, wk, pp, ocr, stage,
          kp, ct, final, ps, nm, io>>

IdleProc == [pc |-> "idle", op |-> NoOp, inst |-> "s1", key |-> "k",
             ifm |-> None, overwrite |-> FALSE, data |-> 0, new |-> 0]

\* ------------------------------------------------------------------------
\* Pipeline: values
\* ------------------------------------------------------------------------
FileStatus == {"progress", "upgrading", "done"}
Fids == 1..NFids
NoFid == 0
UnknownFid == NFids + 1

\* a file name: the stem as a sequence of characters and the last suffix.
\* The character "R" stands for the word "result".
NoName == [stem |-> <<>>, ext |-> ""]
NameA == [stem |-> <<"a">>, ext |-> "jpg"]
NameAB == [stem |-> <<"A", "b">>, ext |-> "jpg"]
NameC == [stem |-> <<"c">>, ext |-> "json"]
NameUA == [stem |-> <<"A">>, ext |-> "jpg"]
\* the name the OCR service gives its output for a.jpg: a_000_result.json
OcrOutA == [stem |-> <<"a", "_", "0", "0", "0", "_", "R">>, ext |-> "json"]

NoRec == [group |-> "", name |-> NoName, status |-> ""]
NoIndex == [ok |-> FALSE, files |-> <<>>]
NoPl == [gid |-> "", filename |-> NoName, fid |-> NoFid, status |-> ""]

Gids == {"g1", "g2"}

IsDigit(c) == c \in {"0", "1"}
casefold(c) == CASE c = "A" -> "a" [] c = "B" -> "b" [] OTHER -> c
IsPrefix(a, b) == Len(a) <= Len(b) /\ SubSeq(b, 1, Len(a)) = a

\* _RESULT_SUFFIX = (?:_result)?$, ignoring case: a trailing "_result" goes
StripResult(s) ==
    IF Len(s) >= 2 /\ s[Len(s) - 1] = "_" /\ s[Len(s)] = "R"
    THEN SubSeq(s, 1, Len(s) - 2) ELSE s

\* _TRAIL_IDX = _(\d{3,})$: a trailing underscore and three or more digits go
StripIdx(s) ==
    LET at == {i \in 1..Len(s) : /\ s[i] = "_" /\ Len(s) - i >= 3
                                 /\ \A j \in (i + 1)..Len(s) : IsDigit(s[j])}
    IN IF at = {} THEN s ELSE SubSeq(s, 1, (CHOOSE i \in at : TRUE) - 1)

\* _normalize_to_stem
normalize_to_stem(n) ==
    LET t == StripIdx(StripResult(n.stem)) IN [i \in 1..Len(t) |-> casefold(t[i])]

\* the test of _resolve_fid_by_filename
StemMatch(target, meta) ==
    target = meta \/ IsPrefix(meta, target) \/ IsPrefix(target, meta)

\* the file lists a client uploads
UploadLists == {<<NameA>>, <<NameAB, NameA>>, <<NameUA>>}

\* the callback bodies clients send
Payloads ==
    { [gid |-> "g1", filename |-> OcrOutA, fid |-> NoFid, status |-> "upgrading"],
      [gid |-> "g1", filename |-> OcrOutA, fid |-> NoFid, status |-> "done"],
      [gid |-> "g1", filename |-> NameA, fid |-> 1, status |-> "upgrading"],
      [gid |-> "", filename |-> NameA, fid |-> 1, status |-> "upgrading"],
      [gid |-> "g1", filename |-> NoName, fid |-> 1, status |-> "done"],
      [gid |-> "g1", filename |-> NameC, fid |-> NoFid, status |-> "upgrading"],
      [gid |-> "g1", filename |-> NameA, fid |-> UnknownFid, status |-> "done"],
      [gid |-> "g2", filename |-> NameA, fid |-> 1, status |-> "done"],
      [gid |-> "g1", filename |-> NameA, fid |-> 1, status |-> "bogus"] }

\* what the OCR service sends on finishing a file: the group, the file id or
\* the file name, and the status upgrading
OcrServicePayload(pl) ==
    /\ pl.gid = "g1" /\ pl.filename # NoName /\ pl.fid # UnknownFid
    /\ pl.status = "upgrading"

\* what process_single_file sends: the group, the name of the file it read,
\* and the status done
PostServicePayload(pl) ==
    /\ pl.gid = "g1" /\ pl.filename # NoName /\ pl.fid = NoFid
    /\ pl.status = "done"

ServicePayload(kind, pl) ==
    \/ kind = "callback_ocr" /\ OcrServicePayload(pl)
    \/ kind = "callback_postprocessing" /\ PostServicePayload(pl)

IdleH == [pc |-> "idle", kind |-> NoOp, pl |-> NoPl, fid |-> NoFid, meta |-> NoRec,
          cand |-> <<>>, names |-> <<>>, made |-> <<>>, re |-> FALSE, un |-> FALSE,
          solo |-> FALSE]
NoLast == [kind |-> NoOp, pl |-> NoPl, code |-> 0, re |-> FALSE, un |-> FALSE,
           wrote |-> FALSE, sched |-> FALSE, solo |-> FALSE]

Handlers == 1..NHandlers

\* start_ml_pipeline: the actor options and the loop constants
max_retries == 10
Attempts == 6
FirstBackoff == 500
MaxBackoff == 8000

IdleWk == [phase |-> "idle", retries |-> 0, attempt |-> 0, backoff |-> FirstBackoff,
           waits |-> <<>>, total |-> 0]
IdlePp == [phase |-> "idle", ok |-> FALSE, attempts |-> 0]

\* the store and the group directories before any upload
PipeEmpty ==
    /\ files = [f \in Fids |-> NoRec]
    /\ mirror = [gf \in Gids \X Fids |-> NoRec]
    /\ index = [g \in Gids |-> NoIndex]
    /\ groups = {}
    /\ gdirs = {}
    /\ hd = [h \in Handlers |-> IdleH]
    /\ queue = <<>>
    /\ bg = 0
    /\ hp = [ops |-> 0, nfid |-> 0, last |-> NoLast, pipe |-> TRUE, own |-> TRUE,
             ok |-> TRUE, nodel |-> TRUE, named |-> {}]

\* a run slot of the OCR service: the image list it found and the image it
\* works on
Runs == 1..MaxRuns
IdleRun == [pc |-> "idle", imgs |-> <<>>, img |-> NoName]

\* no store call by key and no content request is in progress
IdleKp == [pc |-> "idle", op |-> NoOp, key |-> [abs |-> FALSE, segs |-> <<>>],
           path |-> <<>>, io |-> {}, raised |-> FALSE]
IdleCt == [pc |-> "idle", kind |-> NoOp, fid |-> NoFid, filename |-> NoName,
           meta |-> NoRec, rule |-> "", cands |-> {}, path |-> NoName, code |-> 0,
           payload |-> FALSE]

\* the postprocessing service serves no request and has served none
IdlePs == [pc |-> "idle", todo |-> {}, cur |-> NoName, runs |-> 0, sent |-> {}]

\* no name is being normalised
IdleNm == [pc |-> "idle", name |-> NoName, i |-> 0, out |-> NoName,
           src |-> <<>>, res |-> <<>>]

\* no call of the store is in progress, no lock and no permit is taken
SyncKeys == {"k1", "k2"}
IdleCall == [op |-> NoOp, key |-> "k1", pc |-> 0]
IdleIo == [call |-> [p \in Procs |-> IdleCall], locks |-> [k \in SyncKeys |-> Free],
           sem |-> 0]

DispIdle ==
    /\ wk = IdleWk
    /\ pp = IdlePp
    /\ ocr = [t \in Runs |-> IdleRun]
    /\ stage = {}
    /\ kp = IdleKp
    /\ ct = IdleCt
    /\ final = {}
    /\ ps = IdlePs
    /\ nm = IdleNm
    /\ io = IdleIo

\* no store call is in progress (the store of SpecStore is not exercised)
StoreIdle ==
    /\ disk = [k \in Keys |-> NoFile]
    /\ tmp = [p \in Procs |-> NoFile]
    /\ locks = [sk \in Stores \X Keys |-> NoLock]
    /\ clock = 0
    /\ proc = [p \in Procs |-> IdleProc]
    /\ crashed = FALSE
    /\ hs = [calls |-> 0, ret |-> 0, pure |-> TRUE, overlap |-> FALSE,
             obs |-> [p \in Procs |-> None], stale |-> {}]


Exists(k) == disk[k] # NoFile

\* _mtime_or_none: st_mtime of the path, None when the file is absent
mtime_or_none(k) == IF Exists(k) THEN disk[k].mtime ELSE None

\* the comparison of replace/update: current is None or differs from if_match
Mismatch(current, ifm) == current = None \/ current # ifm

\* a write sequence that renames the temporary file before it is flushed
AfterStep_NoFlush(pc) ==
    CASE pc = "mkstemp" -> "write"
      [] pc = "write"   -> "os_replace"
      [] pc = "flush"   -> "fsync"
      [] pc = "fsync"   -> "os_replace"

\* order of the steps of _atomic_write
AfterStep(pc) ==
    CASE pc = "mkstemp" -> "write"
      [] pc = "write"   -> "flush"
      [] pc = "flush"   -> "fsync"
      [] pc = "fsync"   -> "os_replace"

\* replace and update enter the per-key section; create does not
TakesLock(op) == op \in {"replace", "update"}

\* _lock_for: the lock of the path in this store object, made on demand
lock_for(sk) == [locks EXCEPT ![sk] = IF @ = NoLock THEN Free ELSE @]

\* leaving "async with lock", by return or by an exception
Unlock(p) == [sk \in Stores \X Keys |-> IF locks[sk] = p THEN Free ELSE locks[sk]]

InFlight == {p \in Procs : proc[p].pc \notin {"idle", "dead"}}

StoreInit ==
    /\ disk \in [Keys -> {NoFile, [val |-> InitVal, full |-> TRUE, mtime |-> 0]}]
    /\ tmp = [p \in Procs |-> NoFile]
    /\ locks = [sk \in Stores \X Keys |-> NoLock]
    /\ clock = 0
    /\ proc = [p \in Procs |-> IdleProc]
    /\ crashed = FALSE
    /\ hs = [calls |-> 0, ret |-> 0, pure |-> TRUE, overlap |-> FALSE,
             obs |-> [p \in Procs |-> None], stale |-> {}]
    /\ PipeEmpty
    /\ DispIdle

\* ---- a caller invokes create / replace / update / delete ----------------
Call(p) ==
    /\ ~crashed
    /\ proc[p].pc = "idle"
    /\ hs.calls < MaxCalls
    /\ \E op \in {"create", "replace", "update", "delete"}, s \in Stores, k \in Keys,
          m \in {None, hs.obs[p]}, ow \in BOOLEAN :
        /\ op \in {"create", "delete"} => m = None
        /\ op # "create" => ow = FALSE
        \* create and delete take no lock: any store object does the same
        /\ op \in {"create", "delete"} => s = "s1"
        /\ proc' = [proc EXCEPT ![p] =
                      [pc |-> IF TakesLock(op) THEN "acquire"
                              ELSE IF op = "delete" THEN "unlink" ELSE "exists",
                       op |-> op, inst |-> s, key |-> k, ifm |-> m, overwrite |-> ow, data |-> 0,
                       new |-> IF op = "update" THEN 0 ELSE DocOf(p)]]
        /\ locks' = IF TakesLock(op) THEN lock_for(<<s, k>>) ELSE locks
        /\ LET pure == hs.pure /\ op = "update" /\ m = None /\ s = "s1" IN
           hs' = [hs EXCEPT !.calls = @ + 1,
                            !.pure = pure,
                            !.ret = IF pure THEN @ ELSE 0,
                            !.overlap = pure /\ (@ \/ InFlight # {})]
    /\ UNCHANGED <<disk, tmp, clock, crashed, pipeVars, dispVars>>

\* the call raises: the section is left, the caller has its exception
Raised(p) ==
    /\ locks' = Unlock(p)
    /\ proc' = [proc EXCEPT ![p] = IdleProc]

\* ---- delete: path.unlink(), outside every section; FileNotFoundError or
\* the return end the call
delete(p) ==
    /\ ~crashed
    /\ proc[p].pc = "unlink"
    /\ disk' = [disk EXCEPT ![proc[p].key] = NoFile]
    /\ proc' = [proc EXCEPT ![p] = IdleProc]
    /\ UNCHANGED <<tmp, locks, clock, crashed, hs, pipeVars, dispVars>>

\* ---- create: the existence test before the write ------------------------
create_exists(p) ==
    /\ ~crashed
    /\ proc[p].pc = "exists"
    /\ IF ~proc[p].overwrite /\ Exists(proc[p].key)
       THEN Raised(p)
       ELSE proc' = [proc EXCEPT ![p].pc = "mkstemp"] /\ UNCHANGED locks
    /\ UNCHANGED <<disk, tmp, clock, crashed, hs, pipeVars, dispVars>>

\* a section that excludes nobody
CanEnter_NoExclusion(p, sk) == TRUE

\* may process p enter the section of <<store, key>>
CanEnter(p, sk) == locks[sk] = Free

\* ---- async with lock ----------------------------------------------------
Acquire(p) ==
    /\ ~crashed
    /\ proc[p].pc = "acquire"
    /\ LET sk == <<proc[p].inst, proc[p].key>> IN
        /\ CanEnter(p, sk)
        /\ locks' = [locks EXCEPT ![sk] = p]
    /\ proc' = [proc EXCEPT ![p].pc =
                  IF proc[p].ifm # None THEN "check"
                  ELSE IF proc[p].op = "update" THEN "read" ELSE "mkstemp"]
    /\ UNCHANGED <<disk, tmp, clock, crashed, hs, pipeVars, dispVars>>

\* ---- the optimistic test under the lock ---------------------------------
check_mtime(p) ==
    /\ ~crashed
    /\ proc[p].pc = "check"
    /\ IF Mismatch(mtime_or_none(proc[p].key), proc[p].ifm)
       THEN Raised(p)
       ELSE /\ proc' = [proc EXCEPT ![p].pc =
                          IF proc[p].op = "update" THEN "read" ELSE "mkstemp"]
            /\ UNCHANGED locks
    /\ UNCHANGED <<disk, tmp, clock, crashed, hs, pipeVars, dispVars>>

\* ---- update: read the document, json.loads ------------------------------
read(p) ==
    /\ ~crashed
    /\ proc[p].pc = "read"
    /\ LET k == proc[p].key IN
       IF ~Exists(k) \/ ~disk[k].full
       THEN Raised(p)
       ELSE /\ proc' = [proc EXCEPT ![p].pc = "patch", ![p].data = disk[k].val]
            /\ UNCHANGED locks
    /\ UNCHANGED <<disk, tmp, clock, crashed, hs, pipeVars, dispVars>>

\* ---- update: the patch function (it may suspend, so it is its own step) --
apply_patch(p) ==
    /\ ~crashed
    /\ proc[p].pc = "patch"
    /\ proc' = [proc EXCEPT ![p].pc = "mkstemp", ![p].new = patch(proc[p].data)]
    /\ UNCHANGED <<disk, tmp, locks, clock, crashed, hs, pipeVars, dispVars>>

\* ---- _atomic_write ------------------------------------------------------
mkstemp(p) ==
    /\ ~crashed
    /\ proc[p].pc = "mkstemp"
    /\ tmp' = [tmp EXCEPT ![p] = [val |-> proc[p].new, full |-> FALSE, mtime |-> clock]]
    /\ proc' = [proc EXCEPT ![p].pc = AfterStep("mkstemp")]
    /\ UNCHANGED <<disk, locks, clock, crashed, hs, pipeVars, dispVars>>

\* tmp.write(text): the text sits in the writer's buffer, all or only a part
\* of it has reached the file
write(p) ==
    /\ ~crashed
    /\ proc[p].pc = "write"
    /\ \E all \in BOOLEAN :
         tmp' = [tmp EXCEPT ![p] = [val |-> proc[p].new, full |-> all, mtime |-> clock]]
    /\ proc' = [proc EXCEPT ![p].pc = AfterStep("write")]
    /\ UNCHANGED <<disk, locks, clock, crashed, hs, pipeVars, dispVars>>

\* tmp.flush(): the whole text is in the file
flush(p) ==
    /\ ~crashed
    /\ proc[p].pc = "flush"
    /\ tmp' = [tmp EXCEPT ![p] = [val |-> proc[p].new, full |-> TRUE,
                                  mtime |-> IF tmp[p].full THEN tmp[p].mtime ELSE clock]]
    /\ proc' = [proc EXCEPT ![p].pc = AfterStep("flush")]
    /\ UNCHANGED <<disk, locks, clock, crashed, hs, pipeVars, dispVars>>

fsync(p) ==
    /\ ~crashed
    /\ proc[p].pc = "fsync"
    /\ proc' = [proc EXCEPT ![p].pc = AfterStep("fsync")]
    /\ UNCHANGED <<disk, tmp, locks, clock, crashed, hs, pipeVars, dispVars>>

\* os.replace(tmp_name, path): the one visible transition; the target takes
\* the temporary file with the mtime of its last write.  create returns here.
os_replace(p) ==
    /\ ~crashed
    /\ proc[p].pc = "os_replace"
    /\ disk' = [disk EXCEPT ![proc[p].key] = tmp[p]]
    /\ tmp' = [tmp EXCEPT ![p] = NoFile]
    /\ proc' = [proc EXCEPT ![p] = IF proc[p].op = "create" THEN IdleProc
                                   ELSE [@ EXCEPT !.pc = "mtime"]]
    /\ hs' = [hs EXCEPT !.obs[p] = IF proc[p].op = "create" THEN None ELSE @,
                        !.stale = IF proc[p].op = "create" THEN @ \ {p} ELSE @]
    /\ UNCHANGED <<locks, clock, crashed, pipeVars, dispVars>>

\* a step of the write sequence raises (disk full, permission denied)
io_error(p) ==
    /\ ~crashed
    /\ proc[p].pc \in {"write", "flush", "fsync", "os_replace"}
    /\ proc' = [proc EXCEPT ![p].pc = "cleanup"]
    /\ UNCHANGED <<disk, tmp, locks, clock, crashed, hs, pipeVars, dispVars>>

\* the task is cancelled at an await of the write sequence: CancelledError is
\* no Exception, so the except clause is passed by; the finally clause closes
\* the descriptor, the section is left, the temporary file stays
cancel(p) ==
    /\ ~crashed
    /\ proc[p].pc \in {"write", "flush", "fsync", "os_replace"}
    /\ Raised(p)
    /\ UNCHANGED <<disk, tmp, clock, crashed, hs, pipeVars, dispVars>>

\* except: os.remove(tmp_name); raise
cleanup(p) ==
    /\ ~crashed
    /\ proc[p].pc = "cleanup"
    /\ tmp' = [tmp EXCEPT ![p] = NoFile]
    /\ Raised(p)
    /\ UNCHANGED <<disk, clock, crashed, hs, pipeVars, dispVars>>

\* callers whose observed stamp a completed replace of p leaves behind
StaleAfter(p) ==
    {q \in Procs \ {p} : hs.obs[q] # None /\ proc[q].pc \in {"idle", "acquire", "check"}}

\* return await self._mtime(path), still inside the section; then the
\* section is left and the caller has the stamp
mtime(p) ==
    /\ ~crashed
    /\ proc[p].pc = "mtime"
    /\ locks' = Unlock(p)
    /\ proc' = [proc EXCEPT ![p] = IdleProc]
    /\ hs' = [hs EXCEPT !.obs[p] = mtime_or_none(proc[p].key),
                        !.ret = IF hs.pure THEN @ + 1 ELSE @,
                        !.stale = IF proc[p].op = "replace"
                                  THEN (@ \ {p}) \cup StaleAfter(p)
                                  ELSE @ \ {p}]
    /\ UNCHANGED <<disk, tmp, clock, crashed, pipeVars, dispVars>>

Tick ==
    /\ ~crashed
    /\ clock < MaxClock
    /\ clock' = clock + 1
    /\ UNCHANGED <<disk, tmp, locks, proc, crashed, hs, pipeVars, dispVars>>

\* the process is killed: every call stops where it is, the files stay
Crash ==
    /\ ~crashed
    /\ InFlight # {}
    /\ crashed' = TRUE
    /\ proc' = [p \in Procs |-> [IdleProc EXCEPT !.pc = "dead"]]
    /\ UNCHANGED <<disk, tmp, locks, clock, hs, pipeVars, dispVars>>

StoreNext ==
    \/ \E p \in Procs : Call(p)
    \/ \E p \in Procs : create_exists(p)
    \/ \E p \in Procs : delete(p)
    \/ \E p \in Procs : Acquire(p)
    \/ \E p \in Procs : check_mtime(p)
    \/ \E p \in Procs : read(p)
    \/ \E p \in Procs : apply_patch(p)
    \/ \E p \in Procs : mkstemp(p)
    \/ \E p \in Procs : write(p)
    \/ \E p \in Procs : flush(p)
    \/ \E p \in Procs : fsync(p)
    \/ \E p \in Procs : os_replace(p)
    \/ \E p \in Procs : io_error(p)
    \/ \E p \in Procs : cancel(p)
    \/ \E p \in Procs : cleanup(p)
    \/ \E p \in Procs : mtime(p)
    \/ Tick
    \/ Crash

SpecStore == StoreInit /\ [][StoreNext]_vars

\* ------------------------------------------------------------------------
\* Properties of the document store
\* ------------------------------------------------------------------------
WritePcs == {"mkstemp", "write", "flush", "fsync", "os_replace", "cleanup", "mtime"}

\* C1 (per-key serialization): when every call so far was a counter update
\* on the same key of one store and all of them have returned, the stored
\* counter is its initial value plus the number of calls: no update is lost.
C1_NoLostUpdate ==
    (hs.pure /\ ~crashed /\ InFlight = {} /\ hs.ret = hs.calls /\ Exists("k"))
        => disk["k"].val = InitVal + hs.calls

\* at least two updates, some of them in progress together, have all returned
C1_Witness ==
    /\ hs.pure /\ hs.overlap /\ InFlight = {} /\ ~crashed
    /\ hs.ret = hs.calls /\ hs.calls >= 2
    /\ disk["k"].val = InitVal + hs.calls

\* C2 (atomicity under crash): a path that holds a complete document holds,
\* after any step (a kill included), the same document or the complete new
\* document of a writer that was at its rename; never a partial text.  (A
\* delete of the key removes the file.)
C2_Atomicity ==
    [][\A k \in Keys :
         (Exists(k) /\ disk[k].full) =>
            \/ disk'[k] = disk[k]
            \/ \E p \in Procs : /\ proc[p].pc = "unlink" /\ proc[p].key = k
                                 /\ disk'[k] = NoFile
            \/ \E p \in Procs : /\ proc[p].pc = "os_replace" /\ proc[p].key = k
                                 /\ disk'[k].full /\ disk'[k].val = proc[p].new]_vars

\* killed while a temporary file holds a partial text: the document is whole
C2_Witness ==
    /\ crashed
    /\ \E p \in Procs : tmp[p] # NoFile /\ ~tmp[p].full
    /\ Exists("k") /\ disk["k"].full

\* C3 (optimistic lock), as claimed: a replace with if_match_version = v
\* whose stamp v was outdated by another completed replace does not get past
\* the version test (it fails with ConcurrentModification).
C3_OptimisticLock ==
    \A p \in Procs :
        (proc[p].op = "replace" /\ proc[p].ifm # None /\ proc[p].pc \in WritePcs)
            => p \notin hs.stale

\* ------------------------------------------------------------------------
\* Pipeline: uploads, callbacks, administrative patch, group deletion
\* ------------------------------------------------------------------------
Present(f) == f \in Fids /\ files[f] # NoRec
HInFlight == {h \in Handlers : hd[h].pc # "idle"}
StatusOps == {"callback_ocr", "callback_postprocessing", "patch_file"}
others == <<disk, tmp, locks, clock, proc, crashed, hs, wk, pp, ocr, stage, kp, ct, final, ps, nm, io>>

\* a status write that moves the record one stage on instead of overwriting
SetStatus_Advance(rec, status) ==
    [rec EXCEPT !.status = CASE rec.status = "progress" -> "upgrading"
                             [] rec.status = "upgrading" -> "done"
                             [] OTHER -> rec.status]

\* meta["status"] = status
SetStatus(rec, status) == [rec EXCEPT !.status = status]

\* a receiver that schedules the postprocessing from either route
Dispatches_AnyRoute(kind, status) == status = "upgrading"

\* callback_ocr schedules trigger_postprocessing for this status only
Dispatches(kind, status) == kind = "callback_ocr" /\ status = "upgrading"

\* sorted(cur)
Sorted(S) ==
    LET n == Cardinality(S) IN
    [i \in 1..n |-> CHOOSE x \in S : Cardinality({y \in S : y < x}) = i - 1]
Range(q) == {q[i] : i \in 1..Len(q)}

\* a request begins
Begun(kind, pl) ==
    [hp EXCEPT !.ops = @ + 1,
               !.pipe = @ /\ kind # "patch_file"
                          /\ (kind \in StatusOps => ServicePayload(kind, pl)),
               !.own = @ /\ pl.gid # "g2",
               !.nodel = @ /\ kind # "delete_group",
               !.named = @ \cup ({pl.fid} \cap Fids)]

\* the positions a request reaches only after it wrote a record or a mirror
PastWrite == {"cb_mirror", "pf_replace", "up_store", "idx_exists", "idx_read",
              "idx_merge", "idx_create"}

\* some File of the request resolves: the record of its file_uuid when it
\* carries one, else a record of the group index whose name matches
Resolvable(pl) ==
    IF pl.fid # NoFid THEN Present(pl.fid)
    ELSE /\ pl.gid \in Gids /\ index[pl.gid].ok
         /\ \E f \in Range(index[pl.gid].files) :
               /\ Present(f) /\ files[f].name # NoName
               /\ StemMatch(normalize_to_stem(pl.filename), normalize_to_stem(files[f].name))

\* a request is answered
Answer(h0, req, code) ==
    [h0 EXCEPT !.last = [kind |-> req.kind, pl |-> req.pl, code |-> code, re |-> req.re,
                         un |-> req.un /\ ~Resolvable(req.pl),
                         wrote |-> req.pc \in PastWrite,
                         sched |-> req.pc = "cb_mirror"
                                   /\ Dispatches(req.kind, req.pl.status),
                         solo |-> req.solo],
               !.ok = @ /\ (req.kind \in StatusOps => code = 200)]

Finish(h, code) ==
    /\ hd' = [hd EXCEPT ![h] = IdleH]
    /\ hp' = Answer(hp, hd[h], code)

\* a record or an index was written: the file of a request in flight may
\* resolve from now on
Touched(hdx) == [x \in Handlers |-> [hdx[x] EXCEPT !.un = FALSE]]

FinishWrite(h, code) ==
    /\ hd' = Touched([hd EXCEPT ![h] = IdleH])
    /\ hp' = Answer(hp, hd[h], code)

Goto(h, pc) ==
    /\ hd' = [hd EXCEPT ![h].pc = pc]
    /\ UNCHANGED hp

\* slot h takes a request; no other request repeats its predecessor any more
Take(h, rec) ==
    hd' = [x \in Handlers |-> IF x = h THEN rec
                              ELSE [hd[x] EXCEPT !.re = FALSE, !.solo = FALSE]]

\* ---- POST /pipeline/callback_ocr, /pipeline/callback_postprocessing ------
StartCallback(h, kind, pl) ==
    LET re == /\ kind = "callback_ocr" /\ hp.last.kind = kind /\ hp.last.pl = pl
              /\ hp.last.code = 200 /\ HInFlight = {}
    IN IF pl.gid = "" \/ pl.filename = NoName
       THEN /\ Take(h, IdleH)
            /\ hp' = Answer(Begun(kind, pl),
                            [IdleH EXCEPT !.kind = kind, !.pl = pl, !.re = re,
                                          !.un = ~Resolvable(pl)], 400)
       ELSE /\ Take(h, [IdleH EXCEPT !.pc = IF pl.fid = NoFid THEN "res_exists"
                                             ELSE "cb_exists",
                                     !.kind = kind, !.pl = pl, !.fid = pl.fid,
                                     !.re = re, !.un = ~Resolvable(pl)])
            /\ hp' = Begun(kind, pl)

call_callback(h) ==
    /\ hd[h].pc = "idle"
    /\ hp.ops < MaxOps
    /\ \E kind \in {"callback_ocr", "callback_postprocessing"}, pl \in Payloads :
          StartCallback(h, kind, pl)
    /\ UNCHANGED <<files, mirror, index, groups, gdirs, queue, bg, others>>

\* _resolve_fid_by_filename: store.exists(idx_key)
res_exists(h) ==
    /\ hd[h].pc = "res_exists"
    /\ IF index[hd[h].pl.gid].ok THEN Goto(h, "res_read_idx") ELSE Finish(h, 404)
    /\ UNCHANGED <<files, mirror, index, groups, gdirs, queue, bg, others>>

\* _resolve_fid_by_filename: store.read(idx_key)
res_read_idx(h) ==
    /\ hd[h].pc = "res_read_idx"
    /\ LET idx == index[hd[h].pl.gid] IN
       IF ~idx.ok THEN Finish(h, 500)
       ELSE IF idx.files = <<>> THEN Finish(h, 404)
       ELSE /\ hd' = [hd EXCEPT ![h].pc = "res_loop", ![h].cand = idx.files]
            /\ UNCHANGED hp
    /\ UNCHANGED <<files, mirror, index, groups, gdirs, queue, bg, others>>

\* _resolve_fid_by_filename: one turn of the loop over the candidates
res_loop(h) ==
    /\ hd[h].pc = "res_loop"
    /\ LET f == Head(hd[h].cand) IN
       IF ~Present(f) THEN Finish(h, 500)
       ELSE IF /\ files[f].name # NoName
               /\ StemMatch(normalize_to_stem(hd[h].pl.filename),
                            normalize_to_stem(files[f].name))
       THEN /\ hd' = [hd EXCEPT ![h].pc = "cb_exists", ![h].fid = f, ![h].cand = <<>>]
            /\ UNCHANGED hp
       ELSE IF Tail(hd[h].cand) = <<>> THEN Finish(h, 404)
       ELSE /\ hd' = [hd EXCEPT ![h].cand = Tail(@)]
            /\ UNCHANGED hp
    /\ UNCHANGED <<files, mirror, index, groups, gdirs, queue, bg, others>>

\* store.exists(meta_key)
cb_exists(h) ==
    /\ hd[h].pc = "cb_exists"
    /\ IF Present(hd[h].fid) THEN Goto(h, "cb_read") ELSE Finish(h, 404)
    /\ UNCHANGED <<files, mirror, index, groups, gdirs, queue, bg, others>>

\* meta = store.read(meta_key); meta["status"] = status
cb_read(h) ==
    /\ hd[h].pc = "cb_read"
    /\ IF ~Present(hd[h].fid) THEN Finish(h, 500)
       ELSE /\ hd' = [hd EXCEPT ![h].pc = "cb_replace",
                                ![h].meta = SetStatus(files[hd[h].fid], hd[h].pl.status)]
            /\ UNCHANGED hp
    /\ UNCHANGED <<files, mirror, index, groups, gdirs, queue, bg, others>>

\* store.replace(meta_key, meta)
cb_replace(h) ==
    /\ hd[h].pc = "cb_replace"
    /\ files' = [files EXCEPT ![hd[h].fid] = hd[h].meta]
    /\ hd' = Touched([hd EXCEPT ![h].pc = "cb_mirror"])
    /\ UNCHANGED hp
    /\ UNCHANGED <<mirror, index, groups, gdirs, queue, bg, others>>

\* atomic_write_json(group_dir_status(gid) / fid.json, meta), then the
\* background task and the answer
cb_mirror(h) ==
    /\ hd[h].pc = "cb_mirror"
    /\ mirror' = [mirror EXCEPT ![<<hd[h].pl.gid, hd[h].fid>>] = hd[h].meta]
    /\ gdirs' = gdirs \cup {hd[h].pl.gid}
    /\ bg' = IF Dispatches(hd[h].kind, hd[h].pl.status) THEN bg + 1 ELSE bg
    /\ Finish(h, IF hd[h].pl.status \in FileStatus THEN 200 ELSE 500)
    /\ UNCHANGED <<files, index, groups, queue, others>>

\* ---- PATCH /files/{file_uuid} -------------------------------------------
call_patch(h) ==
    /\ hd[h].pc = "idle"
    /\ hp.ops < MaxOps
    /\ \E f \in Fids, st \in FileStatus :
         LET pl == [NoPl EXCEPT !.fid = f, !.status = st] IN
         /\ Take(h, [IdleH EXCEPT !.pc = "pf_exists", !.kind = "patch_file",
                                  !.pl = pl, !.fid = f])
         /\ hp' = Begun("patch_file", pl)
    /\ UNCHANGED <<files, mirror, index, groups, gdirs, queue, bg, others>>

pf_exists(h) ==
    /\ hd[h].pc = "pf_exists"
    /\ IF Present(hd[h].fid) THEN Goto(h, "pf_read") ELSE Finish(h, 404)
    /\ UNCHANGED <<files, mirror, index, groups, gdirs, queue, bg, others>>

pf_read(h) ==
    /\ hd[h].pc = "pf_read"
    /\ IF ~Present(hd[h].fid) THEN Finish(h, 500)
       ELSE /\ hd' = [hd EXCEPT ![h].pc = "pf_mirror",
                                ![h].meta = SetStatus(files[hd[h].fid], hd[h].pl.status)]
            /\ UNCHANGED hp
    /\ UNCHANGED <<files, mirror, index, groups, gdirs, queue, bg, others>>

\* atomic_write_json(s_path, rec): the mirror is written first here
pf_mirror(h) ==
    /\ hd[h].pc = "pf_mirror"
    /\ mirror' = [mirror EXCEPT ![<<hd[h].meta.group, hd[h].fid>>] = hd[h].meta]
    /\ gdirs' = gdirs \cup {hd[h].meta.group}
    /\ Goto(h, "pf_replace")
    /\ UNCHANGED <<files, index, groups, queue, bg, others>>

pf_replace(h) ==
    /\ hd[h].pc = "pf_replace"
    /\ files' = [files EXCEPT ![hd[h].fid] = hd[h].meta]
    /\ FinishWrite(h, 200)
    /\ UNCHANGED <<mirror, index, groups, gdirs, queue, bg, others>>

\* ---- DELETE /groups/{group_uuid} ----------------------------------------
call_delete(h) ==
    /\ hd[h].pc = "idle"
    /\ hp.ops < MaxOps
    /\ LET pl == [NoPl EXCEPT !.gid = "g1"] IN
         /\ Take(h, [IdleH EXCEPT !.pc = "del_rmtree", !.kind = "delete_group", !.pl = pl,
                                  !.solo = (HInFlight = {})])
         /\ hp' = Begun("delete_group", pl)
    /\ UNCHANGED <<files, mirror, index, groups, gdirs, queue, bg, others>>

\* shutil.rmtree(root)
del_rmtree(h) ==
    /\ hd[h].pc = "del_rmtree"
    /\ gdirs' = gdirs \ {hd[h].pl.gid}
    /\ mirror' = [gf \in Gids \X Fids |-> IF gf[1] = hd[h].pl.gid THEN NoRec ELSE mirror[gf]]
    /\ Goto(h, "del_group")
    /\ UNCHANGED <<files, index, groups, queue, bg, others>>

\* store.delete(groups/{group}); store.exists(group_index/{group})
del_group(h) ==
    /\ hd[h].pc = "del_group"
    /\ groups' = groups \ {hd[h].pl.gid}
    /\ Goto(h, "del_idx_exists")
    /\ UNCHANGED <<files, mirror, index, gdirs, queue, bg, others>>

del_idx_exists(h) ==
    /\ hd[h].pc = "del_idx_exists"
    /\ IF index[hd[h].pl.gid].ok THEN Goto(h, "del_read_idx") ELSE Finish(h, 204)
    /\ UNCHANGED <<files, mirror, index, groups, gdirs, queue, bg, others>>

del_read_idx(h) ==
    /\ hd[h].pc = "del_read_idx"
    /\ LET idx == index[hd[h].pl.gid] IN
       IF ~idx.ok THEN Finish(h, 500)
       ELSE /\ hd' = [hd EXCEPT ![h].pc = IF idx.files = <<>> THEN "del_idx" ELSE "del_files",
                                ![h].cand = idx.files]
            /\ UNCHANGED hp
    /\ UNCHANGED <<files, mirror, index, groups, gdirs, queue, bg, others>>

\* store.delete(files/{fid}, missing_ok=True), one file a turn
del_files(h) ==
    /\ hd[h].pc = "del_files"
    /\ files' = [files EXCEPT ![Head(hd[h].cand)] = NoRec]
    /\ hd' = [hd EXCEPT ![h].cand = Tail(@),
                        ![h].pc = IF Tail(hd[h].cand) = <<>> THEN "del_idx" ELSE "del_files"]
    /\ UNCHANGED <<hp, mirror, index, groups, gdirs, queue, bg, others>>

del_idx(h) ==
    /\ hd[h].pc = "del_idx"
    /\ index' = [index EXCEPT ![hd[h].pl.gid] = NoIndex]
    /\ Finish(h, 204)
    /\ UNCHANGED <<files, mirror, groups, gdirs, queue, bg, others>>

\* ---- POST /groups/{group_uuid}/upload-files ------------------------------
\* the file ids are fresh uuids; the slot keeps the ids it will use in cand
call_upload(h) ==
    /\ hd[h].pc = "idle"
    /\ hp.ops < MaxOps
    /\ \E names \in UploadLists :
         LET pl == [NoPl EXCEPT !.gid = "g1"]
             n == Len(names) IN
         /\ hp.nfid + n <= NFids
         /\ Take(h, [IdleH EXCEPT !.pc = "up_group_exists", !.kind = "upload_files_to_group",
                                  !.pl = pl, !.names = names,
                                  !.cand = [i \in 1..n |-> hp.nfid + i]])
         /\ hp' = [Begun("upload_files_to_group", pl) EXCEPT !.nfid = @ + n]
    /\ UNCHANGED <<files, mirror, index, groups, gdirs, queue, bg, others>>

\* store.exists(group_key); ensure_group_dirs when the record is there
up_group_exists(h) ==
    /\ hd[h].pc = "up_group_exists"
    /\ IF hd[h].pl.gid \in groups
       THEN Goto(h, "up_mirror") /\ gdirs' = gdirs \cup {hd[h].pl.gid}
       ELSE Goto(h, "up_group_create") /\ UNCHANGED gdirs
    /\ UNCHANGED <<files, mirror, index, groups, queue, bg, others>>

\* store.create(group_key, ..., overwrite=True); ensure_group_dirs
up_group_create(h) ==
    /\ hd[h].pc = "up_group_create"
    /\ groups' = groups \cup {hd[h].pl.gid}
    /\ gdirs' = gdirs \cup {hd[h].pl.gid}
    /\ Goto(h, "up_mirror")
    /\ UNCHANGED <<files, mirror, index, queue, bg, others>>

\* _save_upload_to_path raises (the write of the raw file fails): the
\* request ends there, after the files before this one were created
up_save_fail(h) ==
    /\ hd[h].pc = "up_mirror"
    /\ Finish(h, 500)
    /\ UNCHANGED <<files, mirror, index, groups, gdirs, queue, bg, others>>

\* atomic_write_json(statuses/{fid}.json, meta)
up_mirror(h) ==
    /\ hd[h].pc = "up_mirror"
    /\ LET g == hd[h].pl.gid
           rec == [group |-> g, name |-> Head(hd[h].names), status |-> "progress"] IN
         /\ mirror' = [mirror EXCEPT ![<<g, Head(hd[h].cand)>>] = rec]
         /\ gdirs' = gdirs \cup {g}
         /\ hd' = [hd EXCEPT ![h].pc = "up_store", ![h].meta = rec]
    /\ UNCHANGED <<hp, files, index, groups, queue, bg, others>>

\* an upload that stores the record and enqueues no dispatch
up_store_NoSend(h) ==
    /\ hd[h].pc = "up_store"
    /\ files' = [files EXCEPT ![Head(hd[h].cand)] = hd[h].meta]
    /\ hd' = Touched([hd EXCEPT
                 ![h].pc = IF Tail(hd[h].cand) = <<>> THEN "idx_exists" ELSE "up_mirror",
                 ![h].made = Append(@, Head(hd[h].cand)),
                 ![h].cand = Tail(@), ![h].names = Tail(@), ![h].meta = NoRec])
    /\ UNCHANGED <<hp, queue, mirror, index, groups, gdirs, bg, others>>

\* store.create(files/{fid}, meta, overwrite=True); start_ml_pipeline.send
up_store(h) ==
    /\ hd[h].pc = "up_store"
    /\ files' = [files EXCEPT ![Head(hd[h].cand)] = hd[h].meta]
    /\ queue' = Append(queue, hd[h].pl.gid)
    /\ hd' = Touched([hd EXCEPT
                 ![h].pc = IF Tail(hd[h].cand) = <<>> THEN "idx_exists" ELSE "up_mirror",
                 ![h].made = Append(@, Head(hd[h].cand)),
                 ![h].cand = Tail(@), ![h].names = Tail(@), ![h].meta = NoRec])
    /\ UNCHANGED <<hp, mirror, index, groups, gdirs, bg, others>>

\* _append_group_index: store.exists(idx_key)
idx_exists(h) ==
    /\ hd[h].pc = "idx_exists"
    /\ Goto(h, IF index[hd[h].pl.gid].ok THEN "idx_read" ELSE "idx_create")
    /\ UNCHANGED <<files, mirror, index, groups, gdirs, queue, bg, others>>

\* _append_group_index: idx = store.read(idx_key)
idx_read(h) ==
    /\ hd[h].pc = "idx_read"
    /\ LET idx == index[hd[h].pl.gid] IN
       IF ~idx.ok THEN Finish(h, 500)
       ELSE /\ hd' = [hd EXCEPT ![h].pc = "idx_merge", ![h].cand = idx.files]
            /\ UNCHANGED hp
    /\ UNCHANGED <<files, mirror, index, groups, gdirs, queue, bg, others>>

\* _append_group_index: store.create(idx_key, {"files": sorted(cur)})
idx_merge(h) ==
    /\ hd[h].pc = "idx_merge"
    /\ index' = [index EXCEPT ![hd[h].pl.gid] =
                   [ok |-> TRUE, files |-> Sorted(Range(hd[h].cand) \cup Range(hd[h].made))]]
    /\ FinishWrite(h, 201)
    /\ UNCHANGED <<files, mirror, groups, gdirs, queue, bg, others>>

\* _append_group_index: store.create(idx_key, {"files": file_ids})
idx_create(h) ==
    /\ hd[h].pc = "idx_create"
    /\ index' = [index EXCEPT ![hd[h].pl.gid] = [ok |-> TRUE, files |-> hd[h].made]]
    /\ FinishWrite(h, 201)
    /\ UNCHANGED <<files, mirror, groups, gdirs, queue, bg, others>>

PipeInit == StoreIdle /\ PipeEmpty /\ DispIdle

PipeNext ==
    \/ \E h \in Handlers : call_callback(h)
    \/ \E h \in Handlers : res_exists(h)
    \/ \E h \in Handlers : res_read_idx(h)
    \/ \E h \in Handlers : res_loop(h)
    \/ \E h \in Handlers : cb_exists(h)
    \/ \E h \in Handlers : cb_read(h)
    \/ \E h \in Handlers : cb_replace(h)
    \/ \E h \in Handlers : cb_mirror(h)
    \/ \E h \in Handlers : call_patch(h)
    \/ \E h \in Handlers : pf_exists(h)
    \/ \E h \in Handlers : pf_read(h)
    \/ \E h \in Handlers : pf_mirror(h)
    \/ \E h \in Handlers : pf_replace(h)
    \/ \E h \in Handlers : call_delete(h)
    \/ \E h \in Handlers : del_rmtree(h)
    \/ \E h \in Handlers : del_group(h)
    \/ \E h \in Handlers : del_idx_exists(h)
    \/ \E h \in Handlers : del_read_idx(h)
    \/ \E h \in Handlers : del_files(h)
    \/ \E h \in Handlers : del_idx(h)
    \/ \E h \in Handlers : call_upload(h)
    \/ \E h \in Handlers : up_group_exists(h)
    \/ \E h \in Handlers : up_group_create(h)
    \/ \E h \in Handlers : up_save_fail(h)
    \/ \E h \in Handlers : up_mirror(h)
    \/ \E h \in Handlers : up_store(h)
    \/ \E h \in Handlers : idx_exists(h)
    \/ \E h \in Handlers : idx_read(h)
    \/ \E h \in Handlers : idx_merge(h)
    \/ \E h \in Handlers : idx_create(h)

SpecPipeline == PipeInit /\ [][PipeNext]_vars

\* ------------------------------------------------------------------------
\* Dispatch: the start_ml_pipeline actor and trigger_postprocessing
\* ------------------------------------------------------------------------
Min(a, b) == IF a < b THEN a ELSE b
frame == <<disk, tmp, locks, clock, proc, crashed, hs, stage, kp, ct, final, ps, nm, io>>

\* the worker takes a message and enters the loop: the first attempt begins
wk_take ==
    /\ wk.phase \in {"idle", "acked", "failed"}
    /\ queue # <<>>
    /\ queue' = Tail(queue)
    /\ wk' = [IdleWk EXCEPT !.phase = "try", !.total = 1]
    /\ UNCHANGED <<files, mirror, index, groups, gdirs, hd, bg, hp, pp, ocr, frame>>

\* client.get and raise_for_status pass: return (the locals are gone).  The
\* service at ml_url has answered with success and a processing thread of it
\* runs; the handler of the OCR service itself is the action main below.
wk_attempt_ok ==
    /\ wk.phase = "try"
    /\ wk' = [IdleWk EXCEPT !.phase = "acked", !.retries = wk.retries, !.total = wk.total]
    /\ \E t \in Runs :
         /\ ocr[t].pc = "idle"
         /\ \A u \in Runs : u < t => ocr[u].pc # "idle"
         /\ ocr' = [ocr EXCEPT ![t].pc = "find"]
    /\ UNCHANGED <<files, mirror, index, groups, gdirs, hd, queue, bg, hp, pp, frame>>

\* except Exception: raise on the last turn of the loop, else go to sleep
wk_attempt_fail ==
    /\ wk.phase = "try"
    /\ wk' = IF wk.attempt = Attempts - 1
             THEN [IdleWk EXCEPT !.phase = "raised", !.retries = wk.retries,
                                 !.total = wk.total]
             ELSE [wk EXCEPT !.phase = "sleep"]
    /\ UNCHANGED <<files, mirror, index, groups, gdirs, hd, queue, bg, hp, pp, ocr, frame>>

\* time.sleep(backoff); backoff = min(backoff * 2, 8); the next attempt begins
wk_sleep ==
    /\ wk.phase = "sleep"
    /\ wk' = [wk EXCEPT !.phase = "try", !.attempt = @ + 1,
                        !.waits = Append(@, wk.backoff),
                        !.backoff = Min(2 * wk.backoff, MaxBackoff),
                        !.total = @ + 1]
    /\ UNCHANGED <<files, mirror, index, groups, gdirs, hd, queue, bg, hp, pp, ocr, frame>>

\* time_limit: the execution is interrupted; httpx bounds each socket
\* operation, not the whole attempt, so this can come during any attempt
wk_time_limit ==
    /\ wk.phase \in {"try", "sleep"}
    /\ wk' = [IdleWk EXCEPT !.phase = "raised", !.retries = wk.retries, !.total = wk.total]
    /\ UNCHANGED <<files, mirror, index, groups, gdirs, hd, queue, bg, hp, pp, ocr, frame>>

\* an exhausted message that also rolls the files of the group back
wk_retry_Rollback ==
    /\ wk.phase = "raised"
    /\ IF wk.retries < max_retries
       THEN /\ wk' = [wk EXCEPT !.phase = "try", !.retries = @ + 1, !.total = @ + 1]
            /\ UNCHANGED files
       ELSE /\ wk' = [wk EXCEPT !.phase = "failed"]
            /\ files' = [f \in Fids |-> IF Present(f) THEN SetStatus(files[f], "progress")
                                        ELSE files[f]]
    /\ UNCHANGED <<mirror, index, groups, gdirs, hd, queue, bg, hp, pp, ocr, frame>>

\* max_retries: the actor raised; the message is executed again from the top
\* until it has been retried max_retries times
wk_retry ==
    /\ wk.phase = "raised"
    /\ wk' = IF wk.retries < max_retries
             THEN [wk EXCEPT !.phase = "try", !.retries = @ + 1, !.total = @ + 1]
             ELSE [wk EXCEPT !.phase = "failed"]
    /\ UNCHANGED <<files, mirror, index, groups, gdirs, hd, queue, bg, hp, pp, ocr, frame>>

\* a scheduled trigger_postprocessing runs: httpx.get
pp_start ==
    /\ bg > 0
    /\ pp.phase \in {"idle", "ended"}
    /\ bg' = bg - 1
    /\ pp' = [phase |-> "get", ok |-> FALSE, attempts |-> 1]
    /\ UNCHANGED <<files, mirror, index, groups, gdirs, hd, queue, hp, wk, ocr, frame>>

\* r.raise_for_status() passes
pp_ok ==
    /\ pp.phase = "get"
    /\ pp' = [pp EXCEPT !.phase = "ended", !.ok = TRUE]
    /\ UNCHANGED <<files, mirror, index, groups, gdirs, hd, queue, bg, hp, wk, ocr, frame>>

\* except Exception: print, and the task ends
pp_fail ==
    /\ pp.phase = "get"
    /\ pp' = [pp EXCEPT !.phase = "ended"]
    /\ UNCHANGED <<files, mirror, index, groups, gdirs, hd, queue, bg, hp, wk, ocr, frame>>

\* a callback of a service arrives: the OCR service calls once the worker
\* has reached it, the postprocessing service (process_single_file) while it
\* serves the request of trigger_postprocessing.  hp.ops counts the upload
\* and the callbacks so far.
call_service(h) ==
    /\ hd[h].pc = "idle"
    /\ hp.ops <= MaxDeliveries
    /\ \E kind \in {"callback_ocr", "callback_postprocessing"}, pl \in Payloads :
          /\ ServicePayload(kind, pl)
          /\ kind = "callback_ocr" => wk.total >= 1
          /\ kind = "callback_postprocessing" => pp.phase = "get"
          /\ StartCallback(h, kind, pl)
    /\ UNCHANGED <<files, mirror, index, groups, gdirs, queue, bg, others>>

\* the state upload_files_to_group(g1, [a.jpg]) leaves behind
Uploaded ==
    LET rec == [group |-> "g1", name |-> NameA, status |-> "progress"] IN
    /\ files = [f \in Fids |-> IF f = 1 THEN rec ELSE NoRec]
    /\ mirror = [gf \in Gids \X Fids |-> IF gf = <<"g1", 1>> THEN rec ELSE NoRec]
    /\ index = [g \in Gids |-> IF g = "g1" THEN [ok |-> TRUE, files |-> <<1>>] ELSE NoIndex]
    /\ groups = {"g1"}
    /\ gdirs = {"g1"}
    /\ hd = [h \in Handlers |-> IdleH]
    /\ queue = <<"g1">>
    /\ bg = 0
    /\ hp = [ops |-> 1, nfid |-> 1,
             last |-> [NoLast EXCEPT !.kind = "upload_files_to_group",
                                     !.pl = [NoPl EXCEPT !.gid = "g1"],
                                     !.code = 201, !.wrote = TRUE],
             pipe |-> TRUE, own |-> TRUE, ok |-> TRUE, nodel |-> TRUE, named |-> {}]

DispatchInit == StoreIdle /\ Uploaded /\ DispIdle

DispatchNext ==
    \/ wk_take
    \/ wk_attempt_ok
    \/ wk_attempt_fail
    \/ wk_sleep
    \/ wk_time_limit
    \/ wk_retry
    \/ pp_start
    \/ pp_ok
    \/ pp_fail
    \/ \E h \in Handlers : call_service(h)
    \/ \E h \in Handlers : res_exists(h)
    \/ \E h \in Handlers : res_read_idx(h)
    \/ \E h \in Handlers : res_loop(h)
    \/ \E h \in Handlers : cb_exists(h)
    \/ \E h \in Handlers : cb_read(h)
    \/ \E h \in Handlers : cb_replace(h)
    \/ \E h \in Handlers : cb_mirror(h)

SpecDispatch == DispatchInit /\ [][DispatchNext]_vars

\* ------------------------------------------------------------------------
\* Properties of the pipeline and of the dispatch
\* ------------------------------------------------------------------------
Rank(st) == CASE st = "progress" -> 1 [] st = "upgrading" -> 2 [] st = "done" -> 3
              [] OTHER -> 0
Callbacks == {"callback_ocr", "callback_postprocessing"}
BackoffSchedule == <<500, 1000, 2000, 4000, 8000>>

\* C4: while only uploads and callbacks of the OCR and postprocessing services
\* have been requested, no step moves the stored status of a File backward in
\* the order progress < upgrading < done.
C4_MonotonicStatus ==
    [][hp'.pipe =>
         \A f \in Fids : (files[f] # NoRec /\ files'[f] # NoRec)
                            => Rank(files'[f].status) >= Rank(files[f].status)]_vars

\* C5: when no request is in flight and every status-changing request was
\* answered 200 (each naming the group of its file, no group deleted), the
\* status of every File record equals the status in the mirror of its group.
C5_DualWriteLockstep ==
    (HInFlight = {} /\ hp.ok /\ hp.own /\ hp.nodel)
      => \A f \in Fids : files[f] # NoRec
            => mirror[<<files[f].group, f>>].status = files[f].status

\* C6: a callback_ocr that repeats the payload of the request answered 200
\* just before it, with no other request in between, changes no File record
\* and no mirror at any of its steps, is answered 200, and schedules one more
\* trigger_postprocessing exactly when the status is upgrading.
C6_IdempotentCallback ==
    [][\A h \in Handlers : (hd[h].re /\ hd'[h] # hd[h]) =>
          /\ files' = files /\ mirror' = mirror
          /\ IF hd'[h].pc = "idle"
             THEN /\ hp'.last.code = 200
                  /\ bg' = bg + (IF hd[h].pl.status = "upgrading" THEN 1 ELSE 0)
             ELSE bg' = bg]_vars

\* a repeated callback_ocr(upgrading) was answered 200 and both deliveries
\* scheduled the postprocessing
C6_Witness ==
    /\ hp.last.re /\ hp.last.code = 200
    /\ hp.last.pl.status = "upgrading" /\ bg = 2

\* C7: one start_ml_pipeline message causes at most 6 HTTP attempts, and the
\* waits between the attempts of an execution are 0.5s, 1s, 2s, 4s, 8s.
C7_BoundedRetry ==
    /\ wk.total <= Attempts
    /\ IsPrefix(wk.waits, BackoffSchedule)

\* C8: a trigger_postprocessing run that has ended either succeeded or made
\* 6 attempts, as the loop of start_ml_pipeline does.
C8_SameRetryContract ==
    pp.phase = "ended" => (pp.ok \/ pp.attempts = Attempts)

\* C9: no step of the dispatch worker and no step of trigger_postprocessing
\* changes a File record, a status mirror or the Group Index.
C9_FailedDispatchFrame ==
    [][(wk' # wk \/ pp' # pp) => UNCHANGED <<files, mirror, index>>]_vars

\* the message failed on every attempt of every execution and the File is
\* still there with the status of the upload
C9_Witness ==
    /\ wk.phase = "failed"
    /\ files[1] # NoRec /\ files[1].status = "progress"

\* C10: a callback without group_uuid or filename is answered 400; a callback
\* whose file is not resolvable at any moment from its arrival to its answer
\* is answered 404; neither writes a record or a mirror nor schedules a dispatch.
C10_CallbackRejection ==
    hp.last.kind \in Callbacks =>
      /\ (hp.last.pl.gid = "" \/ hp.last.pl.filename = NoName)
            => (hp.last.code = 400 /\ ~hp.last.wrote /\ ~hp.last.sched)
      /\ (hp.last.pl.gid # "" /\ hp.last.pl.filename # NoName /\ hp.last.un)
            => (hp.last.code = 404 /\ ~hp.last.wrote /\ ~hp.last.sched)

\* C11: a step schedules one trigger_postprocessing exactly when it is the
\* last step of a callback_ocr with status upgrading that has written the
\* record and the mirror of its resolved File; no other step, and no step of
\* callback_postprocessing whatever its status, schedules any.
C11_DispatchIffUpgrading ==
    [][LET applied == \E h \in Handlers :
                         /\ hd[h].pc = "cb_mirror" /\ hd'[h].pc = "idle"
                         /\ hd[h].kind = "callback_ocr"
                         /\ hd[h].pl.status = "upgrading"
       IN IF applied THEN bg' = bg + 1 /\ hp'.last.wrote ELSE bg' = bg]_vars

\* a callback_postprocessing carrying upgrading and a callback_ocr carrying
\* upgrading were both answered 200, and one postprocessing was scheduled
C11_Witness ==
    /\ bg = 1
    /\ hp.last.kind = "callback_postprocessing" /\ hp.last.pl.status = "upgrading"
    /\ hp.last.code = 200
    /\ \E f \in Fids : files[f] # NoRec /\ files[f].status = "upgrading"

C13_GroupDeletion ==
    (hp.last.kind = "delete_group" /\ hp.last.solo /\ HInFlight = {})
      => LET g == hp.last.pl.gid IN
         /\ g \notin groups /\ g \notin gdirs
         /\ ~index[g].ok
         /\ \A f \in Fids : files[f].group # g /\ mirror[<<g, f>>] = NoRec

\* ------------------------------------------------------------------------
\* The OCR service (ml/entrypoint.py)
\* ------------------------------------------------------------------------
\* the files of raw_data/ of group g1: an upload saves the raw file and writes
\* the mirror in one step, and rmtree removes both
RawNames == {mirror[<<"g1", f>>].name : f \in Fids} \ {NoName}

\* the order of the path strings: "A.jpg" < "Ab.jpg" < "a.jpg" < "c.json"
NameKey(n) == CASE n = NameUA -> 0 [] n = NameAB -> 1 [] n = NameA -> 2 [] OTHER -> 3

\* find_image_files: the image files of the source directory, sorted
find_image_files ==
    LET S == {n \in RawNames : n.ext = "jpg"} IN
    [i \in 1..Cardinality(S) |->
        CHOOSE n \in S : Cardinality({m \in S : NameKey(m) < NameKey(n)}) = i - 1]

\* save_result_to_destination: {stem}_{i:03d}_result.json
ResultName(img, i) ==
    [stem |-> img.stem \o <<"_", "0", "0", IF i = 0 THEN "0" ELSE "1", "_", "R">>,
     ext |-> "json"]

\* start_image_processing: image_files = find_image_files(source)
ocr_find(t) ==
    /\ ocr[t].pc = "find"
    /\ ocr' = [ocr EXCEPT ![t] = IF find_image_files = <<>> THEN IdleRun
                                 ELSE [pc |-> "process", imgs |-> find_image_files,
                                       img |-> find_image_files[1]]]
    /\ UNCHANGED <<files, mirror, index, groups, gdirs, hd, queue, bg, hp, wk, pp, frame>>

\* process_single_image on the first image of the list
ocr_process(t) ==
    /\ ocr[t].pc = "process"
    /\ ocr' = [ocr EXCEPT ![t].pc = "save"]
    /\ UNCHANGED <<files, mirror, index, groups, gdirs, hd, queue, bg, hp, wk, pp, frame>>

\* save_result_to_destination, then the return inside the loop: the thread
\* ends after its first image, and it calls nobody
ocr_save(t) ==
    /\ ocr[t].pc = "save"
    /\ stage' = stage \cup {ResultName(ocr[t].img, 0)}
    /\ ocr' = [ocr EXCEPT ![t] = IdleRun]
    /\ UNCHANGED <<files, mirror, index, groups, gdirs, hd, queue, bg, hp, wk, pp,
                   disk, tmp, locks, clock, proc, crashed, hs, kp, ct, final, ps, nm, io>>

\* uploads, the worker and the OCR service when every request and every
\* processing step succeeds; nothing in these sends a callback
LiveNext ==
    \/ \E h \in Handlers : call_upload(h)
    \/ \E h \in Handlers : up_group_exists(h)
    \/ \E h \in Handlers : up_group_create(h)
    \/ \E h \in Handlers : up_mirror(h)
    \/ \E h \in Handlers : up_store(h)
    \/ \E h \in Handlers : idx_exists(h)
    \/ \E h \in Handlers : idx_read(h)
    \/ \E h \in Handlers : idx_merge(h)
    \/ \E h \in Handlers : idx_create(h)
    \/ wk_take
    \/ wk_attempt_ok
    \/ \E t \in Runs : ocr_find(t)
    \/ \E t \in Runs : ocr_process(t)
    \/ \E t \in Runs : ocr_save(t)

\* every handler, the worker and every thread keeps running
LiveFairness ==
    /\ \A h \in Handlers :
         WF_vars(up_group_exists(h) \/ up_group_create(h) \/ up_mirror(h) \/ up_store(h)
                 \/ idx_exists(h) \/ idx_read(h) \/ idx_merge(h) \/ idx_create(h))
    /\ WF_vars(wk_take \/ wk_attempt_ok)
    /\ \A t \in Runs : WF_vars(ocr_find(t) \/ ocr_process(t) \/ ocr_save(t))

SpecLive == PipeInit /\ [][LiveNext]_vars /\ LiveFairness

\* C14: every File an upload created eventually has status upgrading and
\* eventually has status done.
C14_EndToEndProgress ==
    \A f \in Fids :
        /\ (files[f] # NoRec) ~> (files[f].status = "upgrading")
        /\ (files[f] # NoRec) ~> (files[f].status = "done")

\* C15: no two runs of the OCR service work on the same image at once.
C15_AtMostOnceProcessing ==
    \A t, u \in Runs :
        (t # u /\ ocr[t].pc \in {"process", "save"} /\ ocr[u].pc \in {"process", "save"})
           => ocr[t].img # ocr[u].img

\* C16: a create without overwrite that succeeds never replaces a document
\* present at its key: of concurrent creates on an absent key one succeeds.
C16_CreateNoOverwrite ==
    [][\A p \in Procs :
         ( /\ proc[p].op = "create" /\ ~proc[p].overwrite
           /\ proc[p].pc = "os_replace" /\ proc'[p].pc = "idle" )
         => ~Exists(proc[p].key)]_vars

\* ------------------------------------------------------------------------
\* The store seen from its keys (infra/storage/local_storage.py)
\* ------------------------------------------------------------------------
\* A path is a sequence of segments; a segment is a name and whether the
\* suffix ".json" was put on it. A key is a string of segments separated
\* by "/", absolute when it starts with "/".
Seg(n) == [n |-> n, sfx |-> FALSE]

\* cfg.base_dir.resolve(), and the target of the one symbolic link of the
\* tree, base_dir/ln
BaseDir == <<Seg("srv"), Seg("store")>>
LinkTarget == <<Seg("etc")>>

KeyNames == {"a", "..", ".", "ln", "srv", "store"}
Keys17 == [abs : BOOLEAN,
           segs : UNION {[1..n -> KeyNames] : n \in 0..MaxKeyLen}]
StoreOps == {"create", "read", "replace", "update", "delete", "exists", "list"}

\* self._base_dir / key: an absolute key replaces the base, "." segments go
RECURSIVE NoDots(_)
NoDots(q) ==
    IF q = <<>> THEN <<>>
    ELSE (IF q[1] = "." THEN <<>> ELSE <<Seg(q[1])>>) \o NoDots(Tail(q))

joinpath(key) == IF key.abs THEN NoDots(key.segs) ELSE BaseDir \o NoDots(key.segs)

\* Path.with_suffix(cfg.suffix): the last segment gets the suffix, whatever it
\* is; a path without a last segment has no name
with_suffix(p) == [p EXCEPT ![Len(p)].sfx = TRUE]

\* Path.resolve(): ".." steps up (the root is its own parent), a symbolic
\* link is replaced by its target
RECURSIVE resolve_from(_, _)
resolve_from(done, rest) ==
    IF rest = <<>> THEN done
    ELSE LET s == rest[1] IN
         IF s = Seg("..")
         THEN resolve_from(IF done = <<>> THEN <<>> ELSE SubSeq(done, 1, Len(done) - 1),
                           Tail(rest))
         ELSE IF done \o <<s>> = BaseDir \o <<Seg("ln")>>
         THEN resolve_from(LinkTarget, Tail(rest))
         ELSE resolve_from(done \o <<s>>, Tail(rest))

resolve(p) == resolve_from(<<>>, p)

\* str(p): the characters of the path, a name standing for its characters
RECURSIVE StrSegs(_)
StrSegs(p) ==
    IF p = <<>> THEN <<>>
    ELSE <<"/", p[1].n>> \o (IF p[1].sfx THEN <<".json">> ELSE <<>>) \o StrSegs(Tail(p))

Str(p) == IF p = <<>> THEN <<"/">> ELSE StrSegs(p)

\* a containment test that leaves out the separator
ensure_within_base_NoSep(p) == IsPrefix(Str(BaseDir), Str(p)) \/ p = BaseDir

\* _ensure_within_base: TRUE when it does not raise
ensure_within_base(p) == IsPrefix(Str(BaseDir) \o <<"/">>, Str(p)) \/ p = BaseDir

\* _key_to_path: the path of the key, or ok = FALSE when ValueError is raised
key_to_path(key) ==
    LET j == joinpath(key) IN
    IF j = <<>> THEN [ok |-> FALSE, path |-> <<>>]
    ELSE LET p == resolve(with_suffix(j)) IN [ok |-> ensure_within_base(p), path |-> p]

\* the first two statements of list
list_base(prefix) ==
    LET b == resolve(joinpath(prefix)) IN [ok |-> ensure_within_base(b), path |-> b]

\* a caller calls an operation of the store with a key (list: with a prefix)
kp_call(op, key) ==
    /\ kp.pc = "idle"
    /\ kp' = [IdleKp EXCEPT !.pc = "path", !.op = op, !.key = key]
    /\ UNCHANGED <<storeVars, pipeVars, wk, pp, ocr, stage, ct, final, ps, nm, io>>

\* the first statement of every operation: path = self._key_to_path(key)
kp_path ==
    /\ kp.pc = "path"
    /\ LET r == IF kp.op = "list" THEN list_base(kp.key) ELSE key_to_path(kp.key) IN
       kp' = IF r.ok THEN [kp EXCEPT !.pc = "io", !.path = r.path]
             ELSE [kp EXCEPT !.pc = "done", !.raised = TRUE]
    /\ UNCHANGED <<storeVars, pipeVars, wk, pp, ocr, stage, ct, final, ps, nm, io>>

\* the rest of the operation reads or writes the file system at the path
kp_io ==
    /\ kp.pc = "io"
    /\ kp' = [kp EXCEPT !.pc = "done", !.io = {kp.path}]
    /\ UNCHANGED <<storeVars, pipeVars, wk, pp, ocr, stage, ct, final, ps, nm, io>>

kp_return ==
    /\ kp.pc = "done"
    /\ kp' = IdleKp
    /\ UNCHANGED <<storeVars, pipeVars, wk, pp, ocr, stage, ct, final, ps, nm, io>>

KeysInit == StoreIdle /\ PipeEmpty /\ DispIdle

KeysNext ==
    \/ \E op \in StoreOps, key \in Keys17 : kp_call(op, key)
    \/ kp_path
    \/ kp_io
    \/ kp_return

SpecKeys == KeysInit /\ [][KeysNext]_vars

\* C17: a call of the store reads and writes only strictly beneath the base
\* directory (list: the base directory or beneath it), and a call that
\* raised for its key has read and written nothing.
C17_PathSafety ==
    /\ \A p \in kp.io :
         \/ Len(p) > Len(BaseDir) /\ \A i \in 1..Len(BaseDir) : p[i] = BaseDir[i]
         \/ kp.op = "list" /\ p = BaseDir
    /\ kp.raised => kp.io = {}
    /\ kp.pc = "done" => (kp.raised \/ kp.io # {})

\* the key "../store" names the base directory itself: with the suffix it is
\* the sibling /srv/store.json, and the call raised
C17_Witness ==
    /\ kp.pc = "done" /\ kp.op = "create"
    /\ kp.key = [abs |-> FALSE, segs |-> <<"..", "store">>]
    /\ kp.raised /\ kp.io = {}

\* ------------------------------------------------------------------------
\* Stage content (api/v1/endpoints/files.py)
\* ------------------------------------------------------------------------
\* The requests name the stage progress, whose directory is process/; the
\* files are those of group g1.

\* the characters of a file id (a uuid4; no other name contains them)
FidStem(f) == <<"f", ToString(f)>>

\* p_default = base / f"{file_uuid}.json"
DefaultName(f) == [stem |-> FidStem(f), ext |-> "json"]

\* the filename parameters clients send: none, a_000_result.json,
\* a_001_result.json, a.jpg
Filenames == {NoName, OcrOutA, ResultName(NameA, 1), NameA}

ContentKinds == {"get_file_content", "put_file_content", "delete_file_content"}

Contains(sub, s) ==
    \E i \in 0..(Len(s) - Len(sub)) : SubSeq(s, i + 1, i + Len(sub)) = sub

\* base.glob(f"{stem}*_result.json"), base.glob(f"{stem}*.json") and
\* base.glob(f"*{file_uuid}*.json")
GlobResult(st) ==
    {n \in stage : /\ n.ext = "json" /\ IsPrefix(st, n.stem)
                   /\ Len(n.stem) >= Len(st) + 2
                   /\ SubSeq(n.stem, Len(n.stem) - 1, Len(n.stem)) = <<"_", "R">>}
GlobStem(st) == {n \in stage : n.ext = "json" /\ IsPrefix(st, n.stem)}
GlobFid(f) == {n \in stage : n.ext = "json" /\ Contains(FidStem(f), n.stem)}

\* uniq: the candidates without duplicates, in the order they were found
\* (those of the first pattern, then the new ones of the second, then the new
\* ones of the third); uniq[-1] is any name of the last part that is not
\* empty, a glob listing its matches in the order of the directory
Uniq(meta, f) ==
    LET st == meta.name.stem
        g1 == IF st # <<>> THEN GlobResult(st) ELSE {}
        g2 == IF st # <<>> THEN GlobStem(st) \ g1 ELSE {}
        g3 == GlobFid(f) \ (g1 \cup g2)
    IN [all |-> g1 \cup g2 \cup g3,
        last |-> IF g3 # {} THEN g3 ELSE IF g2 # {} THEN g2 ELSE g1]

\* a resolution that refuses whenever nothing matches
no_candidates_Strict(f, must_exist) == [code |-> 404, path |-> NoName]

\* len(uniq) == 0: 404, or the default path for a write
no_candidates(f, must_exist) ==
    IF must_exist THEN [code |-> 404, path |-> NoName]
    ELSE [code |-> 0, path |-> DefaultName(f)]

\* _resolve_content_path after the record was read: the outcomes it can have,
\* each with the rule that gave it (code 0: a path is returned)
resolve_content_path(f, meta, filename, must_exist) ==
    IF filename # NoName
    THEN LET p == [filename EXCEPT !.ext = "json"] IN
         { [rule |-> "explicit", cands |-> {},
            code |-> IF must_exist /\ p \notin stage THEN 404 ELSE 0,
            path |-> IF must_exist /\ p \notin stage THEN NoName ELSE p] }
    ELSE IF DefaultName(f) \in stage
    THEN { [rule |-> "default", cands |-> {}, code |-> 0, path |-> DefaultName(f)] }
    ELSE LET u == Uniq(meta, f) IN
         IF Cardinality(u.all) = 1
         THEN { [rule |-> "one", cands |-> u.all, code |-> 0, path |-> n] : n \in u.all }
         ELSE IF u.all = {}
         THEN { [rule |-> "none", cands |-> {}, code |-> no_candidates(f, must_exist).code,
                 path |-> no_candidates(f, must_exist).path] }
         ELSE { [rule |-> "many", cands |-> u.all, code |-> 0, path |-> n] : n \in u.last }

CtAnswer(code, payload) ==
    ct' = [ct EXCEPT !.pc = "done", !.code = code, !.payload = payload]

ctFrame == <<storeVars, pipeVars, wk, pp, ocr, kp, final, ps, nm, io>>

\* a client asks for, writes or deletes the content of a file
ct_call(kind, f, filename) ==
    /\ ct.pc = "idle"
    /\ ct' = [IdleCt EXCEPT !.pc = IF kind = "put_file_content" THEN "meta_exists"
                                   ELSE "exists",
                            !.kind = kind, !.fid = f, !.filename = filename]
    /\ UNCHANGED <<stage, ctFrame>>

\* put_file_content: if not await store.exists(f"files/{file_uuid}")
ct_meta_exists ==
    /\ ct.pc = "meta_exists"
    /\ IF Present(ct.fid) THEN ct' = [ct EXCEPT !.pc = "meta_read"]
       ELSE CtAnswer(404, FALSE)
    /\ UNCHANGED <<stage, ctFrame>>

\* put_file_content: meta = await store.read(...), then the stage directory
\* is made
ct_meta_read ==
    /\ ct.pc = "meta_read"
    /\ IF Present(ct.fid) THEN ct' = [ct EXCEPT !.pc = "exists", !.meta = files[ct.fid]]
       ELSE CtAnswer(500, FALSE)
    /\ UNCHANGED <<stage, ctFrame>>

\* _resolve_content_path: if not await store.exists(f"files/{file_uuid}");
\* delete_file_content turns the 404 into 204
ct_exists ==
    /\ ct.pc = "exists"
    /\ IF Present(ct.fid) THEN ct' = [ct EXCEPT !.pc = "read"]
       ELSE CtAnswer(IF ct.kind = "delete_file_content" THEN 204 ELSE 404, FALSE)
    /\ UNCHANGED <<stage, ctFrame>>

\* _resolve_content_path: meta = await store.read(...) and the rest of it
ct_read ==
    /\ ct.pc = "read"
    /\ IF ~Present(ct.fid) THEN CtAnswer(500, FALSE)
       ELSE \E r \in resolve_content_path(ct.fid, files[ct.fid], ct.filename,
                                          ct.kind # "put_file_content") :
              IF r.code = 0
              THEN ct' = [ct EXCEPT !.pc = "io", !.meta = files[ct.fid], !.rule = r.rule,
                                    !.cands = r.cands, !.path = r.path]
              ELSE ct' = [ct EXCEPT !.pc = "done", !.meta = files[ct.fid],
                                    !.rule = r.rule, !.cands = r.cands,
                                    !.code = IF ct.kind = "delete_file_content"
                                             THEN 204 ELSE r.code]
    /\ UNCHANGED <<stage, ctFrame>>

\* get_file_content: data = await read_json_file(p)
\* put_file_content: await atomic_write_json(p, payload.json)
\* delete_file_content: if p.exists(): p.unlink()
ct_io ==
    /\ ct.pc = "io"
    /\ CASE ct.kind = "get_file_content" ->
              /\ IF ct.path \in stage THEN CtAnswer(200, TRUE) ELSE CtAnswer(500, FALSE)
              /\ stage' = stage
         [] ct.kind = "put_file_content" ->
              /\ stage' = stage \cup {ct.path}
              /\ ct' = [ct EXCEPT !.pc = "train"]
         [] OTHER ->
              /\ stage' = stage \ {ct.path}
              /\ CtAnswer(204, FALSE)
    /\ UNCHANGED ctFrame

\* put_file_content: the train copies are written
ct_train ==
    /\ ct.pc = "train"
    /\ CtAnswer(200, TRUE)
    /\ UNCHANGED <<stage, ctFrame>>

\* put_file_content: writing the train copies fails
ct_train_fail ==
    /\ ct.pc = "train"
    /\ CtAnswer(500, FALSE)
    /\ UNCHANGED <<stage, ctFrame>>

ct_return ==
    /\ ct.pc = "done"
    /\ ct' = IdleCt
    /\ UNCHANGED <<stage, ctFrame>>

ContentInit == StoreIdle /\ Uploaded /\ DispIdle

ContentNext ==
    \/ \E kind \in ContentKinds, f \in Fids \cup {UnknownFid}, filename \in Filenames :
         ct_call(kind, f, filename)
    \/ ct_meta_exists
    \/ ct_meta_read
    \/ ct_exists
    \/ ct_read
    \/ ct_io
    \/ ct_train
    \/ ct_train_fail
    \/ ct_return

SpecContent == ContentInit /\ [][ContentNext]_vars

\* C18: a request without a filename, for a file without {file_id}.json,
\* that finds more than one candidate is answered with the error
\* AmbiguousContent (409) and works on no path.
C18_AmbiguousContent ==
    (ct.pc \in {"io", "train", "done"} /\ ct.rule = "many")
        => (ct.pc = "done" /\ ct.code = 409 /\ ct.path = NoName)

\* C19: when nothing in the stage directory matches the file, a read is
\* answered 404 without a payload, and a write goes to {file_id}.json, which
\* exists once the write is done.
C19_ContentNotReady ==
    (ct.pc = "done" /\ ct.rule = "none")
        => /\ ct.kind = "get_file_content" => (ct.code = 404 /\ ~ct.payload)
           /\ ct.kind = "put_file_content"
                => (ct.path = DefaultName(ct.fid) /\ DefaultName(ct.fid) \in stage)

\* a write for file 1 found the directory empty, created f1.json and was
\* answered 200
C19_Witness ==
    /\ ct.pc = "done" /\ ct.kind = "put_file_content" /\ ct.rule = "none"
    /\ ct.fid = 1 /\ ct.code = 200
    /\ stage = {DefaultName(1)}

\* ------------------------------------------------------------------------
\* Listing the files of a group (api/v1/endpoints/groups.py)
\* ------------------------------------------------------------------------
\* list_files_in_group, run with nothing else in between: the ids of the
\* index whose mirror exists, each with the status its mirror holds
\* (code 404: the group has no index)
list_files_in_group(g) ==
    IF ~index[g].ok THEN [code |-> 404, out |-> <<>>]
    ELSE LET ids == SelectSeq(index[g].files, LAMBDA f : mirror[<<g, f>>] # NoRec) IN
         [code |-> 200,
          out |-> [i \in 1..Len(ids) |->
                     [fid |-> ids[i],
                      status |-> IF mirror[<<g, ids[i]>>].status = "" THEN "progress"
                                 ELSE mirror[<<g, ids[i]>>].status]]]

\* C20: with no request in progress, and every callback so far having named
\* the group of its file, every file a listing of a group reports, whose
\* record holds a status of FileStatus, has there the status of its record.
C20_ListPrefersStore ==
    (HInFlight = {} /\ hp.own) =>
        \A g \in Gids :
            LET r == list_files_in_group(g) IN
            \A i \in 1..Len(r.out) :
                (Present(r.out[i].fid) /\ files[r.out[i].fid].status \in FileStatus)
                    => r.out[i].status = files[r.out[i].fid].status

\* ------------------------------------------------------------------------
\* Properties of the document store: sections, listing, failed writes
\* ------------------------------------------------------------------------
\* C22: an update renames its result onto a document that is still there: no
\* delete takes effect between the read and the write of an update.
C22_UpdateVsDelete ==
    [][\A p \in Procs :
         ( /\ proc[p].op = "update"
           /\ proc[p].pc = "os_replace" /\ proc'[p].pc = "mtime" )
         => Exists(proc[p].key)]_vars

\* C23: no two calls hold the section of one key at once, whichever store
\* object each of them went through.
C23_ProcessWideLocks ==
    \A p, q \in Procs :
        ( /\ p # q
          /\ \E s \in Stores : locks[<<s, proc[p].key>>] = p
          /\ \E s \in Stores : locks[<<s, proc[q].key>>] = q )
        => proc[p].key # proc[q].key

\* list: rglob("*" + suffix) under the base directory; the pattern matches
\* the documents and also the temporary files, named .tmp_*.json.  An entry
\* is the key of a document (tmpof = 0) or the temporary file of a process.
list ==
    {[tmpof |-> 0, key |-> k] : k \in {j \in Keys : Exists(j)}}
      \cup {[tmpof |-> p, key |-> proc[p].key] : p \in {q \in Procs : tmp[q] # NoFile}}

\* C24: every name list returns is the key of a document, and reading it
\* gives a complete document.
C24_NoPartialDocument ==
    \A e \in list :
        /\ e.tmpof = 0
        /\ disk[e.key].full

\* C25: while the process lives, a temporary file exists only during the
\* write sequence that made it: when the sequence failed or was cancelled
\* the file is gone.
C25_FailedWriteCleansUp ==
    ~crashed =>
        \A p \in Procs :
            tmp[p] # NoFile
              => proc[p].pc \in {"write", "flush", "fsync", "os_replace", "cleanup"}

\* C26: the step of an upload that writes group_index/{group} removes no
\* file id that was in it.
C26_IndexAppendOnly ==
    [][\A h \in Handlers :
         ( /\ hd[h].pc \in {"idx_merge", "idx_create"}
           /\ hd'[h].pc = "idle" )
         => Range(index[hd[h].pl.gid].files) \subseteq Range(index'[hd[h].pl.gid].files)]_vars

\* C28: the status of every File record and of every mirror is one of
\* progress, upgrading, done.
C28_StatusDomain ==
    /\ \A f \in Fids : files[f] # NoRec => files[f].status \in FileStatus
    /\ \A gf \in Gids \X Fids : mirror[gf] # NoRec => mirror[gf].status \in FileStatus

\* C27: no two files of the process/ directory normalize to the same stem.
C27_StageContentUnique ==
    \A m, n \in stage : normalize_to_stem(m) = normalize_to_stem(n) => m = n

\* C30: every image that is in raw_data/ when a run of the OCR service lists
\* the directory eventually has its result in process/.
C30_OcrCompletion ==
    \A n \in {NameA, NameAB, NameUA} :
        (n \in RawNames /\ \E t \in Runs : ocr[t].pc = "find")
            ~> (\E i \in 0..1 : ResultName(n, i) \in stage)

\* ------------------------------------------------------------------------
\* The postprocessing service (postprocessing/main.py) with the callback
\* receiver: group g1 after the upload of a.jpg and one run of the OCR
\* service, so that process/ holds a_000_result.json
\* ------------------------------------------------------------------------
postFrame == <<disk, tmp, locks, clock, proc, crashed, hs, wk, pp, ocr, stage, kp, ct, nm, io>>

\* process_files: the GET of a trigger_postprocessing task arrives;
\* json_files = list(input_path.glob("*.json"))
ps_call ==
    /\ bg > 0
    /\ ps.pc = "idle"
    /\ ps.runs < MaxRuns
    /\ bg' = bg - 1
    /\ ps' = [ps EXCEPT !.pc = "loop", !.todo = {n \in stage : n.ext = "json"},
                        !.runs = @ + 1]
    /\ UNCHANGED <<files, mirror, index, groups, gdirs, hd, queue, hp, final, postFrame>>

\* for json_file in json_files: the next file, or the answer after the last
ps_next ==
    /\ ps.pc = "loop"
    /\ IF ps.todo = {}
       THEN ps' = [ps EXCEPT !.pc = "idle", !.cur = NoName]
       ELSE \E n \in ps.todo :
              ps' = [ps EXCEPT !.pc = "file", !.todo = @ \ {n}, !.cur = n]
    /\ UNCHANGED <<files, mirror, index, groups, gdirs, hd, queue, bg, hp, final, postFrame>>

\* process_single_file: the input is read and processed, and the result is
\* written to output_path = dst / input name
ps_write ==
    /\ ps.pc = "file"
    /\ final' = final \cup {ps.cur}
    /\ ps' = [ps EXCEPT !.pc = "post"]
    /\ UNCHANGED <<files, mirror, index, groups, gdirs, hd, queue, bg, hp, postFrame>>

\* process_single_file: the processing raises; the input is written to
\* output_path as it is and no callback is sent
ps_fail ==
    /\ ps.pc = "file"
    /\ final' = final \cup {ps.cur}
    /\ ps' = [ps EXCEPT !.pc = "loop"]
    /\ UNCHANGED <<files, mirror, index, groups, gdirs, hd, queue, bg, hp, postFrame>>

\* process_single_file: reading or parsing the input raises before data is
\* bound; the except branch opens output_path for writing and then raises
\* on the unbound data, and the exception ends process_files: the request is
\* answered 500 and the files left in the list are not processed
ps_read_fail ==
    /\ ps.pc = "file"
    /\ final' = final \cup {ps.cur}
    /\ ps' = [ps EXCEPT !.pc = "idle", !.todo = {}, !.cur = NoName]
    /\ UNCHANGED <<files, mirror, index, groups, gdirs, hd, queue, bg, hp, postFrame>>

\* process_single_file: session.post(callback_url, json = {group_uuid,
\* filename: input_path.name, status: done})
ps_post(h) ==
    /\ ps.pc = "post"
    /\ hd[h].pc = "idle"
    /\ StartCallback(h, "callback_postprocessing",
                     [gid |-> "g1", filename |-> ps.cur, fid |-> NoFid, status |-> "done"])
    /\ ps' = [ps EXCEPT !.pc = "loop", !.sent = @ \cup {ps.cur}]
    /\ UNCHANGED <<files, mirror, index, groups, gdirs, queue, bg, final, postFrame>>

PostInit ==
    /\ StoreIdle /\ Uploaded
    /\ wk = IdleWk /\ pp = IdlePp /\ ocr = [t \in Runs |-> IdleRun]
    /\ kp = IdleKp /\ ct = IdleCt
    /\ stage = {OcrOutA}
    /\ final = {}
    /\ ps = IdlePs
    /\ nm = IdleNm
    /\ io = IdleIo

PostNext ==
    \/ \E h \in Handlers : call_callback(h)
    \/ \E h \in Handlers : res_exists(h)
    \/ \E h \in Handlers : res_read_idx(h)
    \/ \E h \in Handlers : res_loop(h)
    \/ \E h \in Handlers : cb_exists(h)
    \/ \E h \in Handlers : cb_read(h)
    \/ \E h \in Handlers : cb_replace(h)
    \/ \E h \in Handlers : cb_mirror(h)
    \/ ps_call
    \/ ps_next
    \/ ps_write
    \/ ps_fail
    \/ ps_read_fail
    \/ \E h \in Handlers : ps_post(h)

SpecPost == PostInit /\ [][PostNext]_vars

\* C21: a run of the postprocessing service does not process again an input
\* whose result is already in the dst directory, and posts no second done
\* callback for it.
C21_PostprocessingIdempotent ==
    [][/\ (ps.pc = "file" /\ ps'.pc = "post" => ps.cur \notin final)
       /\ (ps.pc = "post" /\ ps'.pc = "loop" => ps.cur \notin ps.sent)]_vars

\* the payloads of a File in a stage directory: the names of the directory
\* whose stem is the stem of the File after normalisation
PayloadsOf(f, dir) ==
    {n \in dir : normalize_to_stem(n) = normalize_to_stem(files[f].name)}

\* C29: apart from administrative patches and content deletes, a File whose
\* status is upgrading or done has an OCR payload in process/ of its group,
\* and a File whose status is done has a final payload in final/.  Stated
\* for the states in which every callback so far named the group of its
\* File and carried the status of its route.
C29_StatusImpliesPayload ==
    \A f \in Fids :
        hp.pipe /\ hp.own /\ Present(f) /\ files[f].group = "g1"
                /\ files[f].name # NoName =>
            /\ (files[f].status \in {"upgrading", "done"} => PayloadsOf(f, stage) # {})
            /\ (files[f].status = "done" => PayloadsOf(f, final) # {})

\* ------------------------------------------------------------------------
\* File names through the OCR service and the normalisation
\* (ml/entrypoint.py, utils/common.py)
\* ------------------------------------------------------------------------
\* the characters of the stems: a letter in both cases, the underscore and
\* a digit
StemChars == {"a", "A", "_", "0"}
SourceNames ==
    {[stem |-> s, ext |-> "jpg"] : s \in UNION {[1..n -> StemChars] : n \in 1..MaxStemLen}}

nmFrame == <<storeVars, pipeVars, wk, pp, ocr, stage, kp, ct, final, ps, io>>

\* an image with this name is the i-th of the list of a run
nm_call(n, i) ==
    /\ nm.pc = "idle"
    /\ nm' = [IdleNm EXCEPT !.pc = "scan", !.name = n, !.i = i]
    /\ UNCHANGED nmFrame

\* start_image_processing: scan_id = stem_i, and the output is named after it
nm_scan ==
    /\ nm.pc = "scan"
    /\ nm' = [nm EXCEPT !.pc = "norm", !.out = ResultName(nm.name, nm.i)]
    /\ UNCHANGED nmFrame

\* the resolver and the report builder normalise the two names
nm_norm ==
    /\ nm.pc = "norm"
    /\ nm' = [nm EXCEPT !.pc = "done", !.src = normalize_to_stem(nm.name),
                        !.res = normalize_to_stem(nm.out)]
    /\ UNCHANGED nmFrame

nm_return ==
    /\ nm.pc = "done"
    /\ nm' = IdleNm
    /\ UNCHANGED nmFrame

NamesInit == StoreIdle /\ PipeEmpty /\ DispIdle

NamesNext ==
    \/ \E n \in SourceNames, i \in 0..1 : nm_call(n, i)
    \/ nm_scan
    \/ nm_norm
    \/ nm_return

SpecNames == NamesInit /\ [][NamesNext]_vars

\* C31: the name the OCR service gives the output of a source file
\* normalises to the stem the name of the source file normalises to, also
\* when the stem of the source ends in an underscore and three or more digits.
C31_NormalizationRoundTrip ==
    nm.pc = "done" => nm.res = nm.src

\* ------------------------------------------------------------------------
\* Properties of the callback receiver: resolution, groups, deletion
\* ------------------------------------------------------------------------
\* the Files of a group that stand in the containment relation of
\* _resolve_fid_by_filename with a file name
Related(g, filename) ==
    {f \in Range(index[g].files) :
        /\ Present(f) /\ files[f].name # NoName
        /\ StemMatch(normalize_to_stem(filename), normalize_to_stem(files[f].name))}

\* C32: a callback that names its File by file name only changes the status
\* of the File of the group whose name normalises to the stem of that file
\* name, and changes no status when more than one File of the group is
\* related to the file name.  Stated for a callback that runs alone and with
\* no delete_group so far.
C32_UnambiguousResolution ==
    [][\A h \in Handlers :
          /\ hd[h].pc = "cb_replace" /\ hd'[h].pc = "cb_mirror"
          /\ hd[h].pl.fid = NoFid /\ HInFlight = {h} /\ hp.nodel
          => /\ Related(hd[h].pl.gid, hd[h].pl.filename) = {hd[h].fid}
             /\ normalize_to_stem(files[hd[h].fid].name)
                  = normalize_to_stem(hd[h].pl.filename)]_vars

\* C33: a callback that carries a group and a file id changes state only
\* when the File belongs to that group: it writes neither the record nor a
\* status mirror of a File whose record names another group.
C33_CallbackOwnGroup ==
    [][\A h \in Handlers :
          /\ hd[h].kind \in {"callback_ocr", "callback_postprocessing"}
          /\ hd[h].pl.fid # NoFid
          /\ \/ hd[h].pc = "cb_replace" /\ hd'[h].pc = "cb_mirror"
             \/ hd[h].pc = "cb_mirror" /\ hd'[h].pc = "idle"
          => hd[h].meta.group = hd[h].pl.gid]_vars

\* C34: once delete_group of a group has returned, no callback and no
\* administrative patch, in flight or arriving later, makes a File record, a
\* status mirror or the directory tree of the group exist again.  Stated for
\* the steps taken while the deletion is the latest request answered, it
\* has left no File record of the group, and no upload is in progress.
C34_DeletionFinal ==
    [][/\ hp.last.kind = "delete_group" /\ hp.last.code = 204 /\ hp.own
       /\ \A f \in Fids : files[f].group # hp.last.pl.gid
       /\ \A h \in Handlers : hd[h].kind # "upload_files_to_group"
       => LET g == hp.last.pl.gid IN
          /\ \A f \in Fids :
                /\ (files[f].group # g => files'[f].group # g)
                /\ (mirror[<<g, f>>] = NoRec => mirror'[<<g, f>>] = NoRec)
          /\ (g \notin gdirs => g \notin gdirs')]_vars

\* C35: at the moment an upload enqueues a dispatch request for a group,
\* every File of the group already stored has its id in the index of the
\* group.
C35_DispatchAfterIndex ==
    [][Len(queue') > Len(queue) =>
          LET g == queue'[Len(queue')] IN
          \A f \in Fids : files'[f].group = g =>
              index'[g].ok /\ f \in Range(index'[g].files)]_vars

\* ------------------------------------------------------------------------
\* The request handler of the OCR service and the worker that calls it
\* (ml/entrypoint.py main, tasks/ml_tasks.py)
\* ------------------------------------------------------------------------
\* main: the request arrives, thread.start(), and the function ends without
\* a return value: the server has no response to send and answers 500 or
\* closes the connection, so client.get or raise_for_status raises in the
\* worker and the attempt ends as a failed one
main ==
    /\ wk.phase = "try"
    /\ \E t \in Runs :
         /\ ocr[t].pc = "idle"
         /\ \A u \in Runs : u < t => ocr[u].pc # "idle"
         /\ ocr' = [ocr EXCEPT ![t].pc = "find"]
    /\ wk' = IF wk.attempt = Attempts - 1
             THEN [IdleWk EXCEPT !.phase = "raised", !.retries = wk.retries,
                                 !.total = wk.total]
             ELSE [wk EXCEPT !.phase = "sleep"]
    /\ UNCHANGED <<files, mirror, index, groups, gdirs, hd, queue, bg, hp, pp, frame>>

ServeNext ==
    \/ wk_take
    \/ main
    \/ wk_attempt_fail
    \/ wk_sleep
    \/ wk_retry
    \/ \E t \in Runs : ocr_find(t)
    \/ \E t \in Runs : ocr_process(t)
    \/ \E t \in Runs : ocr_save(t)

SpecServe == DispatchInit /\ [][ServeNext]_vars

\* C36: when the handler of the OCR service starts the processing thread of
\* a dispatch request, the request is answered with success and the worker
\* makes no further attempt, so that the one message of the queue never has
\* two runs at work.
C36_DispatchAcknowledged ==
    [][/\ (\E t \in Runs : ocr[t].pc = "idle" /\ ocr'[t].pc = "find")
            => wk'.phase = "acked"
       /\ Cardinality({t \in Runs : ocr'[t].pc # "idle"}) <= 1]_vars

\* ------------------------------------------------------------------------
\* The synchronisation of the store: the per-key locks and the semaphore
\* of one store object (local_storage.py)
\* ------------------------------------------------------------------------
SyncOps == {"create", "read", "replace", "update", "delete", "exists", "list"}

\* an operation that takes the semaphore first and the lock of the key in it
Prog_SemThenLock(op) ==
    CASE op = "create"  -> <<"sem", "io", "thread", "sem", "io", "thread">>
      [] op = "replace" -> <<"sem", "lock", "thread", "io", "thread", "unlock", "sem", "io">>
      [] op = "update"  -> <<"sem", "lock", "io", "thread", "thread", "sem", "io", "thread",
                             "sem", "io", "unlock">>
      [] OTHER          -> <<"sem", "io">>

\* the points of an operation in their order.  lock, unlock: "async with
\* lock"; sem: "async with self._io_sem"; io: the I/O in the section, and the
\* permit is given back; thread: a step outside the section (mkstemp,
\* os.replace, the patch function).
\*   exists, read, delete, list: one section
\*   create: _exists, then _atomic_write: mkstemp, the write, os.replace
\*   replace: the lock, _atomic_write, _mtime
\*   update: the lock, read, patch, _atomic_write, _mtime
Prog(op) ==
    CASE op = "create"  -> <<"sem", "io", "thread", "sem", "io", "thread">>
      [] op = "replace" -> <<"lock", "thread", "sem", "io", "thread", "sem", "io", "unlock">>
      [] op = "update"  -> <<"lock", "sem", "io", "thread", "thread", "sem", "io", "thread",
                             "sem", "io", "unlock">>
      [] OTHER          -> <<"sem", "io">>

At(p) == IF io.call[p].pc = 0 THEN "idle" ELSE Prog(io.call[p].op)[io.call[p].pc]

\* the call of p after its step: the next point, or the return after the last
Stepped(p) ==
    [io.call EXCEPT ![p] = IF io.call[p].pc = Len(Prog(io.call[p].op)) THEN IdleCall
                           ELSE [@ EXCEPT !.pc = @ + 1]]

syncFrame == <<storeVars, pipeVars, wk, pp, ocr, stage, kp, ct, final, ps, nm>>

\* a caller calls the store; the operations without a lock are the same for
\* every key
sync_call(p, op, key) ==
    /\ io.call[p].pc = 0
    /\ op \notin {"replace", "update"} => key = "k1"
    /\ io' = [io EXCEPT !.call[p] = [op |-> op, key |-> key, pc |-> 1]]
    /\ UNCHANGED syncFrame

\* async with lock: the lock of the key is free
sync_lock(p) ==
    /\ At(p) = "lock"
    /\ io.locks[io.call[p].key] = Free
    /\ io' = [io EXCEPT !.call = Stepped(p), !.locks[io.call[p].key] = p]
    /\ UNCHANGED syncFrame

\* async with self._io_sem: a permit is left
sync_sem(p) ==
    /\ At(p) = "sem"
    /\ io.sem < max_io_concurrency
    /\ io' = [io EXCEPT !.call = Stepped(p), !.sem = @ + 1]
    /\ UNCHANGED syncFrame

\* the I/O of the section ends and the section is left
sync_io(p) ==
    /\ At(p) = "io"
    /\ io' = [io EXCEPT !.call = Stepped(p), !.sem = @ - 1]
    /\ UNCHANGED syncFrame

\* a step in a thread or in the patch function, outside the section
sync_thread(p) ==
    /\ At(p) = "thread"
    /\ io' = [io EXCEPT !.call = Stepped(p)]
    /\ UNCHANGED syncFrame

\* the end of "async with lock"
sync_unlock(p) ==
    /\ At(p) = "unlock"
    /\ io' = [io EXCEPT !.call = Stepped(p), !.locks[io.call[p].key] = Free]
    /\ UNCHANGED syncFrame

\* the I/O or the step raises: the context managers give back the permit
\* and the lock on the way out, and the call ends
sync_raise(p) ==
    /\ At(p) \in {"io", "thread"}
    /\ io' = [io EXCEPT !.call[p] = IdleCall,
                        !.sem = IF At(p) = "io" THEN @ - 1 ELSE @,
                        !.locks = [k \in SyncKeys |-> IF @[k] = p THEN Free ELSE @[k]]]
    /\ UNCHANGED syncFrame

sync_step(p) ==
    \/ sync_lock(p)
    \/ sync_sem(p)
    \/ sync_io(p)
    \/ sync_thread(p)
    \/ sync_unlock(p)

SyncInit == StoreIdle /\ PipeEmpty /\ DispIdle

SyncNext ==
    \/ \E p \in Procs, op \in SyncOps, key \in SyncKeys : sync_call(p, op, key)
    \/ \E p \in Procs : sync_lock(p)
    \/ \E p \in Procs : sync_sem(p)
    \/ \E p \in Procs : sync_io(p)
    \/ \E p \in Procs : sync_thread(p)
    \/ \E p \in Procs : sync_unlock(p)
    \/ \E p \in Procs : sync_raise(p)

\* the event loop runs every task that can run, and asyncio.Lock and
\* asyncio.Semaphore wake their waiters first come, first served: a call that
\* can go on again and again does go on
SyncFairness == \A p \in Procs : SF_vars(sync_step(p))

SpecSync == SyncInit /\ [][SyncNext]_vars /\ SyncFairness

\* C37: every call of the store returns, whatever calls run beside it.
C37_NoDeadlock ==
    \A p \in Procs : (io.call[p].pc # 0) ~> (io.call[p].pc = 0)

\* two callers are inside replace or update of the same key, one holding the
\* lock and the other waiting for it, with every permit taken
C37_Witness ==
    \E p, q \in Procs :
        /\ p # q /\ io.call[p].key = io.call[q].key
        /\ io.locks[io.call[p].key] = p
        /\ At(q) = "lock"
        /\ io.sem = max_io_concurrency

\* ------------------------------------------------------------------------
\* The path of the stage content named by the caller
\* (api/v1/endpoints/files.py)
\* ------------------------------------------------------------------------
\* stage_dir(group_uuid, stage) of the File's group
StageDir == <<Seg("srv"), Seg("data"), Seg("g1"), Seg("process")>>
ContentOps == {"get_file_content", "put_file_content", "delete_file_content"}

\* _resolve_content_path with a filename: p = base / filename, and the
\* suffix ".json" is put on a name that does not end in it; <<>> when the
\* path has no name to put it on
content_path(filename) ==
    LET j == (IF filename.abs THEN <<>> ELSE StageDir) \o NoDots(filename.segs) IN
    IF j = <<>> THEN <<>> ELSE with_suffix(j)

\* a request for the content of a File of g1 names a file
cp_call(op, filename) ==
    /\ kp.pc = "idle"
    /\ filename.abs \/ filename.segs # <<>>
    /\ kp' = [IdleKp EXCEPT !.pc = "cpath", !.op = op, !.key = filename]
    /\ UNCHANGED <<storeVars, pipeVars, wk, pp, ocr, stage, ct, final, ps, nm, io>>

cp_path ==
    /\ kp.pc = "cpath"
    /\ LET p == content_path(kp.key) IN
       kp' = IF p = <<>> THEN [kp EXCEPT !.pc = "done", !.raised = TRUE]
             ELSE [kp EXCEPT !.pc = "cio", !.path = p]
    /\ UNCHANGED <<storeVars, pipeVars, wk, pp, ocr, stage, ct, final, ps, nm, io>>

\* must_exist and p.exists() is false: 404 (delete: 204)
cp_missing ==
    /\ kp.pc = "cio"
    /\ kp.op # "put_file_content"
    /\ kp' = [kp EXCEPT !.pc = "done", !.raised = TRUE]
    /\ UNCHANGED <<storeVars, pipeVars, wk, pp, ocr, stage, ct, final, ps, nm, io>>

\* read_json_file(p), atomic_write_json(p, ...), p.unlink(): the file system
\* follows the path to the file it names
cp_io ==
    /\ kp.pc = "cio"
    /\ kp' = [kp EXCEPT !.pc = "done", !.io = {resolve(kp.path)}]
    /\ UNCHANGED <<storeVars, pipeVars, wk, pp, ocr, stage, ct, final, ps, nm, io>>

PathsNext ==
    \/ \E op \in ContentOps, filename \in Keys17 : cp_call(op, filename)
    \/ cp_path
    \/ cp_missing
    \/ cp_io
    \/ kp_return

SpecPaths == KeysInit /\ [][PathsNext]_vars

\* C38: for every file name the caller supplies, the file a content request
\* reads, writes or deletes lies beneath the stage directory of the group of
\* the File.
C38_ContentWithinStage ==
    \A p \in kp.io :
        kp.op \in ContentOps =>
            Len(p) > Len(StageDir) /\ \A i \in 1..Len(StageDir) : p[i] = StageDir[i]

\* C39: when the processing of an input file fails, the postprocessing
\* service posts no done callback for it, the failure is handled without
\* raising, and the service goes on with the files that are left.
C39_FailureSendsNoCompletion ==
    [][ps.pc = "file" /\ ps'.pc # "post" =>
          /\ hd' = hd
          /\ ps'.pc = "loop"
          /\ ps'.todo = ps.todo]_vars

====
